---- MODULE Spec2Model ----
(***************************************************************************)
(* The executor of graphql-py: graphql() / execute() in the synchronous    *)
(* driver (graphql/core/execution/__init__.py) and in the asyncio driver   *)
(* (graphql/contrib/asyncio_py35/core/execution/__init__.py), both running *)
(* the generators of graphql/core/execution/base.py.                       *)
(*                                                                         *)
(* The Python call stack is the variable stack: one frame per active call  *)
(* of execute, execute_fields_serially, resolve_field,                     *)
(* complete_value_catching_error and complete_value.  A call that ends     *)
(* pops its frame and leaves its return value or its exception in ret,     *)
(* where the caller's next step picks it up.                               *)
(***************************************************************************)
EXTENDS Integers, Sequences, FiniteSets, TLC

VARIABLES
    mode,        \* "sync" | "async": which driver package runs the request
    entry,       \* "graphql" | "execute": the function the caller invoked
    schema,      \* [query, mutation]: the root type names ("none": no mutation type)
    document,    \* the document AST: a sequence of operation definitions
    operation_name,  \* the operation name given by the caller ("" for none)
    valErrors,   \* what validate(schema, ast) returned to graphql()
    coroutines,  \* whether the resolve functions of the root type are `async def`
    resolvers,   \* the resolve functions, revealed on first call: <<source id, field>> -> outcome
    stack,       \* the call stack, innermost call last
    ret,         \* return value or exception travelling from a finished call to its caller;
                 \* with the stack empty, what the entry function gave the caller
    errors,      \* ctx.errors
    calls,       \* history: every resolver invocation of this run, in order
    first,       \* the outcome of the synchronous run, kept when the request is run again asynchronously
    type_map,    \* schema._type_map: None until get_type_map has stored the map it built
    callers,     \* the calls of get_type_map in progress, one record per caller
    info         \* the TypeInfo object of a validation traversal

vars == <<mode, entry, schema, document, operation_name, valErrors, coroutines,
          resolvers, stack, ret,
          errors, calls, first, type_map, callers, info>>

(***************************************************************************)
(* Bounds of the model.                                                    *)
(***************************************************************************)
MaxSel == 2      \* selections in the root selection set
MaxItems == 2    \* length of a list a resolver returns

(***************************************************************************)
(* Python values.                                                          *)
(***************************************************************************)
None == [t |-> "nil"]
Undefined == [t |-> "undef"]
Str(s) == [t |-> "str", s |-> s]
Num(i) == [t |-> "int", i |-> i]
Object(id) == [t |-> "obj", id |-> id]
List(items) == [t |-> "list", items |-> items]
Dict(entries) == [t |-> "dict", entries |-> entries]
\* an awaitable that has not finished yet (a Future, a coroutine object); v is
\* what awaiting it gives
Pending(v) == [t |-> "pending", v |-> v]

\* bool(v): what Python's `and` / `or` / `not` test
Truthy(v) ==
    CASE v.t = "nil" -> FALSE
      [] v.t = "str" -> v.s # ""
      [] v.t = "int" -> v.i # 0
      [] v.t = "list" -> v.items # <<>>
      [] v.t = "dict" -> v.entries # <<>>
      [] OTHER -> TRUE

\* `exc.args and exc.args[0] or None` for a StopIteration carrying value v:
\* args is () when the generator returned None, (v,) otherwise
ArgsAndOr(v) == IF v.t # "nil" /\ Truthy(v) THEN v ELSE None

\* `exc.args[0]` of the asyncio execute_fields_serially
ArgsFirst(v) == v

is_nullish(v) == v.t = "nil"

(***************************************************************************)
(* The type system: the schema the requests run against.                   *)
(***************************************************************************)
TypeDef(t) ==
    CASE t = "String"    -> [kind |-> "Scalar",  of_type |-> "none"]
      [] t = "String!"   -> [kind |-> "NonNull", of_type |-> "String"]
      [] t = "[String!]" -> [kind |-> "List",    of_type |-> "String!"]
      [] t = "Obj"       -> [kind |-> "Object",  of_type |-> "none"]
      [] t = "Obj!"      -> [kind |-> "NonNull", of_type |-> "Obj"]
      [] t = "[Obj]"     -> [kind |-> "List",    of_type |-> "Obj"]
      [] t = "Query"     -> [kind |-> "Object",  of_type |-> "none"]
      [] t = "Mutation"  -> [kind |-> "Object",  of_type |-> "none"]
      [] t = "Other"     -> [kind |-> "Object",  of_type |-> "none"]
      [] t = "Node"      -> [kind |-> "Interface", of_type |-> "none"]
      [] t = "Either"    -> [kind |-> "Union",   of_type |-> "none"]
      [] t = "Lone"      -> [kind |-> "Union",   of_type |-> "none"]

\* schema.get_type_map(): the names schema.get_type finds
TypeMap == {"String", "Obj", "Query", "Mutation", "Other", "Node", "Either", "Lone"}

\* conditional_type.is_possible_type(type_) of an interface or a union: Obj
\* implements Node, Either is Obj | Other, Lone is Other alone
is_possible_type(abstract, t) ==
    CASE abstract = "Node"   -> t \in {"Obj"}
      [] abstract = "Either" -> t \in {"Obj", "Other"}
      [] abstract = "Lone"   -> t \in {"Other"}
      [] OTHER -> FALSE

\* type_from_ast(schema, NamedType(name)) = schema.get_type(name): "none" for a
\* name the type map does not hold
type_from_ast(name) == IF name \in TypeMap THEN name ELSE "none"

\* type(t): the Python class of a type object, NoneType for None
PyClass(t) == IF t = "none" THEN "NoneType" ELSE TypeDef(t).kind

\* no type taken for a NonNull one
NeverNonNull(t) == FALSE

\* isinstance(t, GraphQLNonNull)
IsNonNull(t) == TypeDef(t).kind = "NonNull"

RootFields == [a |-> "String", n |-> "String!", l |-> "[String!]",
               o |-> "Obj", q |-> "[Obj]"]

MutationFields == [a |-> "String", o |-> "Obj"]

ObjFields == [x |-> "String", y |-> "String!", p |-> "Obj!"]

\* Other declares fields under the names of the introspection fields
OtherFields == [n \in {"x", "__schema", "__type"} |-> "String"]

\* the fields of the interface Node
NodeFields == [x |-> "String"]

\* parent_type.get_fields()
get_fields(parent_type) ==
    CASE parent_type = "Query" -> RootFields
      [] parent_type = "Mutation" -> MutationFields
      [] parent_type = "Other" -> OtherFields
      [] parent_type = "Node" -> NodeFields
      [] OTHER -> ObjFields

\* a field definition: its name, the name of its type, and whether it is one of
\* the introspection meta-fields
FieldDef(name, type, meta) == [name |-> name, type |-> type, meta |-> meta]

\* a missing entry (dict.get returning None); its type is "none"
NoFieldDef == FieldDef("", "none", FALSE)

SchemaMetaFieldDef == FieldDef("__schema", "__Schema!", TRUE)
TypeMetaFieldDef == FieldDef("__type", "__Type", TRUE)
TypeNameMetaFieldDef == FieldDef("__typename", "String!", TRUE)

\* parent_type.get_fields().get(field_name)
DeclaredField(parent_type, field_name) ==
    IF field_name \in DOMAIN get_fields(parent_type)
    THEN FieldDef(field_name, get_fields(parent_type)[field_name], FALSE)
    ELSE NoFieldDef

\* a lookup that knows the meta-fields on every parent type
MetaEverywhere(sch, parent_type, field_name) ==
    IF field_name = SchemaMetaFieldDef.name THEN SchemaMetaFieldDef
    ELSE IF field_name = TypeMetaFieldDef.name THEN TypeMetaFieldDef
    ELSE IF field_name = TypeNameMetaFieldDef.name THEN TypeNameMetaFieldDef
    ELSE DeclaredField(parent_type, field_name)

\* the executor's get_field_def: parent_type is an object type
get_field_def(sch, parent_type, field_name) ==
    IF field_name = SchemaMetaFieldDef.name /\ sch.query = parent_type
    THEN SchemaMetaFieldDef
    ELSE IF field_name = TypeMetaFieldDef.name /\ sch.query = parent_type
    THEN TypeMetaFieldDef
    ELSE IF field_name = TypeNameMetaFieldDef.name
    THEN TypeNameMetaFieldDef
    ELSE DeclaredField(parent_type, field_name)

\* get_field_def of graphql/core/utils.py, which the validation uses: the
\* parent may be any type, or "none"
utils_get_field_def(sch, parent_type, name) ==
    IF name = SchemaMetaFieldDef.name /\ sch.query = parent_type
    THEN SchemaMetaFieldDef
    ELSE IF name = TypeMetaFieldDef.name /\ sch.query = parent_type
    THEN TypeMetaFieldDef
    ELSE IF /\ name = TypeNameMetaFieldDef.name
            /\ PyClass(parent_type) \in {"Object", "Interface", "Union"}
    THEN TypeNameMetaFieldDef
    ELSE IF PyClass(parent_type) \in {"Object", "Interface"}
    THEN DeclaredField(parent_type, name)
    ELSE NoFieldDef

\* GraphQLString.serialize
serialize(t, v) ==
    CASE v.t = "str" -> v
      [] v.t = "int" -> Str(IF v.i = 0 THEN "0" ELSE "7")
      [] OTHER -> Str("<object>")

(***************************************************************************)
(* The document AST.  A Field node: name, alias ("" when it has none),     *)
(* directives (each [name, if], the argument already coerced),             *)
(* selection_set (<<>> when the field has none) and id, the node's place   *)
(* in the document, which is what an error location points at.  Every node *)
(* is a record of the same shape; kind is its class, type_condition the    *)
(* type name of a fragment's condition ("" on the other nodes).            *)
(***************************************************************************)
Field(name, alias, directives, selection_set, id) ==
    [kind |-> "Field", name |-> name, alias |-> alias, directives |-> directives,
     selection_set |-> selection_set, id |-> id, type_condition |-> ""]

InlineFragment(type_condition, directives, selection_set, id) ==
    [kind |-> "InlineFragment", name |-> "", alias |-> "", directives |-> directives,
     selection_set |-> selection_set, id |-> id, type_condition |-> type_condition]

FragmentSpread(name, directives, id) ==
    [kind |-> "FragmentSpread", name |-> name, alias |-> "", directives |-> directives,
     selection_set |-> <<>>, id |-> id, type_condition |-> ""]

FragmentDefinition(name, type_condition, directives, selection_set, id) ==
    [kind |-> "FragmentDefinition", name |-> name, alias |-> "", directives |-> directives,
     selection_set |-> selection_set, id |-> id, type_condition |-> type_condition,
     operation |-> "", variable_definitions |-> <<>>]

RECURSIVE Place(_, _)
\* the node put at place id of a document, its selections numbered below it
Place(node, id) ==
    [node EXCEPT !.id = id,
                 !.selection_set = [j \in 1..Len(@) |-> Place(@[j], Append(id, j))]]

\* a field without selection set, not yet placed
Leaf(name, alias, directives) == Field(name, alias, directives, <<>>, <<>>)

\* $name: type of an operation
VariableDefinition(name, type) == [name |-> name, type |-> type]

Directive(name, if) == [name |-> name, if |-> if]

RECURSIVE FirstNamed(_, _)
\* the `for directive in directives: if directive.name.value == n: ...; break` loop:
\* the first directive named n, as a sequence of length 0 or 1
FirstNamed(directives, n) ==
    IF directives = <<>> THEN <<>>
    ELSE IF Head(directives).name = n THEN <<Head(directives)>>
    ELSE FirstNamed(Tail(directives), n)

\* @include consulted before @skip
IncludeFirst(directives) ==
    LET skip_ast == FirstNamed(directives, "skip")
        include_ast == FirstNamed(directives, "include")
    IN  IF include_ast # <<>> THEN include_ast[1].if
        ELSE IF skip_ast # <<>> THEN ~ skip_ast[1].if
        ELSE TRUE

should_include_node(directives) ==
    IF directives # <<>>
    THEN LET skip_ast == FirstNamed(directives, "skip")
             include_ast == FirstNamed(directives, "include")
         IN  IF skip_ast # <<>> THEN ~ skip_ast[1].if
             ELSE IF include_ast # <<>> THEN include_ast[1].if
             ELSE TRUE
    ELSE TRUE

\* a key that ignores the alias
KeyByName(node) == node.name

get_field_entry_key(node) == IF node.alias # "" THEN node.alias ELSE node.name

\* the index of key in the ordered dict fields, 0 when it is not a key
KeyIndex(fields, key) ==
    LET hits == {i \in 1..Len(fields) : fields[i].key = key}
    IN  IF hits = {} THEN 0 ELSE CHOOSE i \in hits : TRUE

\* fragment is an InlineFragment or a FragmentDefinition
does_fragment_condition_match(fragment, type_) ==
    LET conditional_type == type_from_ast(fragment.type_condition)
    IN  IF PyClass(conditional_type) = PyClass(type_) THEN TRUE
        ELSE IF PyClass(conditional_type) \in {"Interface", "Union"}
        THEN is_possible_type(conditional_type, type_)
        ELSE FALSE

\* ctx.fragments.get(frag_name): fragments is the sequence of the document's
\* FragmentDefinitions, the last one of a name being the dict's entry
FragmentNames(fragments) == {fragments[i].name : i \in 1..Len(fragments)}
FragmentNamed(fragments, frag_name) ==
    fragments[CHOOSE i \in 1..Len(fragments) :
                 /\ fragments[i].name = frag_name
                 /\ \A j \in (i+1)..Len(fragments) : fragments[j].name # frag_name]

\* fields[name].append(selection), the entry being created when name is new
AppendField(fields, name, selection) ==
    LET at == KeyIndex(fields, name)
    IN  IF at = 0
        THEN Append(fields, [key |-> name, asts |-> <<selection>>])
        ELSE [fields EXCEPT ![at].asts = Append(@, selection)]

\* every fragment name taken for visited once one is
MarkAll(prev_fragment_names, frag_name) ==
    prev_fragment_names \cup {"F", "G", "H", "I", "S", frag_name}

\* prev_fragment_names.add(frag_name)
MarkVisited(prev_fragment_names, frag_name) == prev_fragment_names \cup {frag_name}

Collected(fields, prev_fragment_names) ==
    [fields |-> fields, visited |-> prev_fragment_names]

\* the call left by the AttributeError of reading an attribute of None
NoneAttribute(fields, prev_fragment_names, attribute) ==
    [fields |-> fields, visited |-> prev_fragment_names, attribute |-> attribute]
HasRaised(collected) == "attribute" \in DOMAIN collected

\* fragment = ctx.fragments.get(frag_name) is None
IsMissing(fragments, frag_name) == frag_name \notin FragmentNames(fragments)

RECURSIVE collect_fields(_, _, _, _, _)
\* fields is the dict being filled, as the sequence of its [key, asts] entries in
\* insertion order; the function fills fields and prev_fragment_names in place,
\* so the model hands both back.  For a spread whose name has no fragment,
\* fragment is None and `frag_directives = fragment.directives` raises.
collect_fields(fragments, type, selections, fields, prev_fragment_names) ==
    IF selections = <<>> THEN Collected(fields, prev_fragment_names)
    ELSE LET selection == Head(selections)
             directives == selection.directives
         IN  IF selection.kind = "Field"
             THEN IF ~ should_include_node(directives)
                  THEN collect_fields(fragments, type, Tail(selections), fields, prev_fragment_names)
                  ELSE collect_fields(fragments, type, Tail(selections),
                           AppendField(fields, get_field_entry_key(selection), selection),
                           prev_fragment_names)
             ELSE IF selection.kind = "InlineFragment"
             THEN IF \/ ~ should_include_node(directives)
                     \/ ~ does_fragment_condition_match(selection, type)
                  THEN collect_fields(fragments, type, Tail(selections), fields, prev_fragment_names)
                  ELSE LET inner == collect_fields(fragments, type, selection.selection_set,
                                                   fields, prev_fragment_names)
                       IN  IF HasRaised(inner) THEN inner
                           ELSE collect_fields(fragments, type, Tail(selections),
                                               inner.fields, inner.visited)
             ELSE LET frag_name == selection.name
                  IN  IF \/ frag_name \in prev_fragment_names
                         \/ ~ should_include_node(directives)
                      THEN collect_fields(fragments, type, Tail(selections), fields,
                                          prev_fragment_names)
                      ELSE LET visited == MarkVisited(prev_fragment_names, frag_name)
                               fragment == FragmentNamed(fragments, frag_name)
                           IN  IF IsMissing(fragments, frag_name)
                               THEN NoneAttribute(fields, visited, "directives")
                               ELSE IF \/ ~ should_include_node(fragment.directives)
                                       \/ ~ does_fragment_condition_match(fragment, type)
                               THEN collect_fields(fragments, type, Tail(selections),
                                                   fields, visited)
                               ELSE LET inner == collect_fields(fragments, type,
                                                     fragment.selection_set, fields, visited)
                                    IN  IF HasRaised(inner) THEN inner
                                        ELSE collect_fields(fragments, type, Tail(selections),
                                                            inner.fields, inner.visited)

RECURSIVE SubfieldLoop(_, _, _, _)
\* `for field_ast in field_asts:` of complete_value_gen, sofar holding
\* subfield_asts and visited_fragment_names
SubfieldLoop(fragments, object_type, field_asts, sofar) ==
    IF field_asts = <<>> THEN sofar
    ELSE SubfieldLoop(fragments, object_type, Tail(field_asts),
             IF Head(field_asts).selection_set # <<>>
             THEN collect_fields(fragments, object_type, Head(field_asts).selection_set,
                                 sofar.fields, sofar.visited)
             ELSE sofar)

\* the sub-fields of the first field AST alone
FirstSelectionOnly(fragments, object_type, field_asts) ==
    SubfieldLoop(fragments, object_type, <<field_asts[1]>>, Collected(<<>>, {})).fields

\* the sub-fields complete_value_gen collects for an object: subfield_asts = {}
\* and visited_fragment_names = set() once, then the loop over field_asts
CollectSubfields(fragments, object_type, field_asts) ==
    SubfieldLoop(fragments, object_type, field_asts, Collected(<<>>, {})).fields

(***************************************************************************)
(* Exceptions, results and call frames.                                    *)
(***************************************************************************)
Exc(cls, msg, nodes, arg) == [cls |-> cls, msg |-> msg, nodes |-> nodes, arg |-> arg]
AttributeError(name) == Exc("AttributeError", name, <<>>, None)
NoExc == Exc("none", "", <<>>, None)

\* GraphQLError(message, nodes): nodes are kept by their ids
GraphQLError(msg, nodes) == Exc("GraphQLError", msg, nodes, None)

\* the StopIteration a generator raises when it returns v
StopIteration(v) == Exc("StopIteration", "", <<>>, v)

NodeIds(asts) == [i \in 1..Len(asts) |-> asts[i].id]

NoRet == [k |-> "none", v |-> None, e |-> NoExc]
RetVal(v) == [k |-> "val", v |-> v, e |-> NoExc]
RetExc(e) == [k |-> "exc", v |-> None, e |-> e]

\* format_error(error)
format_error(e) == [message |-> e.msg, locations |-> e.nodes]

ExecutionResult(data, errs) == [t |-> "result", data |-> data, errors |-> errs]

Frame(fn, pc, type, source, fields, idx, acc, asts) ==
    [fn |-> fn, pc |-> pc, type |-> type, source |-> source, fields |-> fields,
     idx |-> idx, acc |-> acc, asts |-> asts]

Top == stack[Len(stack)]
Pop == SubSeq(stack, 1, Len(stack) - 1)
\* the stack with its top frame replaced by f and then the frames fs pushed
Call(f, fs) == Pop \o <<f>> \o fs

\* the frames of a call of complete_value_catching_error(ctx, return_type,
\* field_asts, info, result): it calls complete_value at once
CatchingFrames(return_type, field_asts, result) ==
    << Frame("complete_value_catching_error", "wait", return_type, result, <<>>, 0, <<>>, field_asts),
       Frame("complete_value", "start", return_type, result, <<>>, 0, <<>>, field_asts) >>

\* a dict iterated from its last entry to its first
ReversedItems(fields) == [i \in 1..Len(fields) |-> fields[Len(fields) + 1 - i]]

\* fields.items(): a dict is iterated in insertion order (the language's
\* guarantee from Python 3.7 on, which the model takes as given)
fields_items(fields) == fields

FieldsFrame(parent_type, source, fields) ==
    Frame("execute_fields_serially", "start", parent_type, source, fields_items(fields), 0, <<>>, <<>>)

(***************************************************************************)
(* ExecutionContext.__init__ : the operation to run, or the error raised.  *)
(***************************************************************************)
IsOperation(statement) == statement.kind = "OperationDefinition"
IsFragment(statement) == statement.kind = "FragmentDefinition"

\* the statements of the document that are OperationDefinitions, in order
Operations(doc) == SelectSeq(doc, IsOperation)
\* fragments[statement.name.value] = statement for every FragmentDefinition
Fragments(doc) == SelectSeq(doc, IsFragment)

\* operations[name] = statement for every definition: the last one of a name
\* wins; the keys of the dict (name is "" for an anonymous operation)
OperationNames(doc) == {Operations(doc)[i].name : i \in 1..Len(Operations(doc))}
OperationNamed(doc, name) ==
    LET ops == Operations(doc)
    IN  ops[CHOOSE i \in 1..Len(ops) :
                /\ ops[i].name = name
                /\ \A j \in (i+1)..Len(ops) : ops[j].name # name]
\* next(iter(operations.keys())): the first name inserted
FirstOperationName(doc) == Operations(doc)[1].name

\* len(operations) of the dict
LenOperations(doc) == Cardinality(OperationNames(doc))

MustProvideOperationName ==
    GraphQLError("Must provide operation name if query contains multiple operations", <<>>)

\* get_variable_values(schema, operation.variable_definitions or [], args) for
\* a caller that passes no variable values: a variable of NonNull type is
\* missing
get_variable_values(variable_definitions) ==
    IF \E i \in 1..Len(variable_definitions) : IsNonNull(variable_definitions[i].type)
    THEN [ok |-> FALSE, error |-> GraphQLError("Variable was not provided", <<>>)]
    ELSE [ok |-> TRUE, error |-> NoExc]

\* a context built whatever name is given: the first operation, no coercion
FirstOperationContext(doc, given_name) ==
    [ok |-> TRUE, operation |-> Operations(doc)[1], fragments |-> Fragments(doc),
     error |-> NoExc]

ExecutionContext(doc, given_name) ==
    IF given_name = "" /\ LenOperations(doc) # 1
    THEN [ok |-> FALSE, operation |-> None, fragments |-> <<>>,
          error |-> MustProvideOperationName]
    ELSE LET op_name == IF given_name # "" THEN given_name
                        ELSE FirstOperationName(doc)
         IN  IF op_name \notin OperationNames(doc)
             THEN [ok |-> FALSE, operation |-> None, fragments |-> <<>>,
                   error |-> GraphQLError("Unknown operation name", <<>>)]
             ELSE LET operation == OperationNamed(doc, op_name)
                      variables == get_variable_values(operation.variable_definitions)
                  IN  IF ~ variables.ok
                      THEN [ok |-> FALSE, operation |-> None, fragments |-> <<>>,
                            error |-> variables.error]
                      ELSE [ok |-> TRUE, operation |-> operation,
                            fragments |-> Fragments(doc), error |-> NoExc]

get_operation_root_type(sch, operation) ==
    IF operation.operation = "query"
    THEN [ok |-> TRUE, type |-> sch.query, error |-> NoExc]
    ELSE IF operation.operation = "mutation"
    THEN IF sch.mutation = "none"
         THEN [ok |-> FALSE, type |-> "none",
               error |-> GraphQLError("Schema is not configured for mutations", <<operation.id>>)]
         ELSE [ok |-> TRUE, type |-> sch.mutation, error |-> NoExc]
    ELSE [ok |-> FALSE, type |-> "none",
          error |-> GraphQLError("Can only execute queries and mutations", <<operation.id>>)]

\* a result that always carries a list of errors
ResultWithErrorList(data, ctx_errors) ==
    ExecutionResult(data, List([i \in 1..Len(ctx_errors) |-> format_error(ctx_errors[i])]))

\* what execute_gen yields once execute_operation's data is sent to it
ExecuteGenResult(data, ctx_errors) ==
    IF ctx_errors = <<>>
    THEN ExecutionResult(data, None)
    ELSE ExecutionResult(data,
             List([i \in 1..Len(ctx_errors) |-> format_error(ctx_errors[i])]))

(***************************************************************************)
(* The requests: documents over the schema's field names and one name,     *)
(* zz, that no type defines.  The scalar documents select fields of scalar *)
(* and list-of-scalar type at the root; in the object documents every      *)
(* object-typed root field carries the selection set sub1, and every p     *)
(* inside it the selection set sub2; the list field q is selected at most  *)
(* once at the root.                                                       *)
(***************************************************************************)
Item(name, skip) == [name |-> name, skip |-> skip]

ScalarItems == {Item("a", FALSE), Item("a", TRUE), Item("n", FALSE), Item("l", FALSE),
                Item("zz", FALSE)}
ObjectItems == {Item("a", FALSE), Item("o", FALSE), Item("q", FALSE)}
Sub1Items == {Item("x", FALSE), Item("y", FALSE), Item("p", FALSE), Item("zz", FALSE)}
LeafItems == {Item("x", FALSE), Item("y", FALSE)}

Seqs(S, lo, hi) == UNION {[1..n -> S] : n \in lo..hi}

ItemField(item, selection_set, id) ==
    Field(item.name, "",
          IF item.skip THEN <<Directive("skip", TRUE)>> ELSE <<>>,
          selection_set, id)

Build2(sub2, prefix) ==
    [j \in 1..Len(sub2) |-> ItemField(sub2[j], <<>>, Append(prefix, j))]

Build1(sub1, sub2, prefix) ==
    [j \in 1..Len(sub1) |->
        ItemField(sub1[j],
                  IF sub1[j].name = "p" THEN Build2(sub2, Append(prefix, j)) ELSE <<>>,
                  Append(prefix, j))]

Build0(root, sub1, sub2) ==
    [j \in 1..Len(root) |->
        ItemField(root[j],
                  IF root[j].name \in {"o", "q"} THEN Build1(sub1, sub2, <<j>>) ELSE <<>>,
                  <<j>>)]

OperationDefinition(name, operation, selection_set) ==
    [kind |-> "OperationDefinition", name |-> name, alias |-> "", directives |-> <<>>,
     selection_set |-> selection_set, id |-> <<0>>, type_condition |-> "",
     operation |-> operation, variable_definitions |-> <<>>]

\* of the items S, those an operation of this type selects at the root: the
\* fields of its root type and zz
RootItemsOf(operation, S) ==
    IF operation = "query" THEN S
    ELSE {it \in S : it.name \in DOMAIN MutationFields \cup {"zz"}}

Singles(S) == {<<s>> : s \in S}
Pairs(S) == {<<s, t>> : s \in S, t \in S}

ScalarDocuments ==
    { << OperationDefinition("", operation, Build0(root, <<>>, <<>>)) >> :
        operation \in {"query", "mutation"},
        root \in Seqs(ScalarItems, 1, MaxSel) }

ObjectDocuments ==
    { << OperationDefinition("", operation, Build0(root, sub1, sub2)) >> :
        operation \in {"query", "mutation"},
        root \in {r \in Seqs(ObjectItems, 1, MaxSel) :
                    Cardinality({j \in 1..Len(r) : r[j].name = "q"}) <= 1},
        sub1 \in {<<>>} \cup Singles(Sub1Items) \cup Pairs(LeafItems),
        sub2 \in Singles(LeafItems) }

\* a document of two operations named n1 and n2 ("" for an anonymous one): the
\* first selects a, the second n
TwoOperations(n1, n2) ==
    << OperationDefinition(n1, "query", <<Place(Leaf("a", "", <<>>), <<1>>)>>),
       [OperationDefinition(n2, "query", <<Place(Leaf("n", "", <<>>), <<51>>)>>)
            EXCEPT !.id = <<50>>] >>

MultiDocuments == {TwoOperations(n1, n2) : n1 \in {"", "A", "B"}, n2 \in {"", "A", "B"}}

\* `query ($v: type) { a }`
VariableDocuments ==
    { << [OperationDefinition("", "query", <<Place(Leaf("a", "", <<>>), <<1>>)>>)
             EXCEPT !.variable_definitions = <<VariableDefinition("v", type)>>] >> :
        type \in {"String", "String!"} }

\* object-typed fields whose selection sets differ, two of one response key to
\* a document; F is `fragment F on Obj { x }`
MergeNodesO ==
    { Field("o", "", <<>>, <<Leaf("x", "", <<>>)>>, <<>>),
      Field("o", "", <<>>, <<Leaf("y", "", <<>>)>>, <<>>),
      Field("o", "", <<>>, <<FragmentSpread("F", <<>>, <<>>)>>, <<>>),
      Field("o", "", <<>>, <<FragmentSpread("F", <<>>, <<>>), Leaf("y", "", <<>>)>>, <<>>) }
MergeNodesK ==
    { Field("o", "k", <<>>, <<Leaf("x", "", <<>>)>>, <<>>),
      Field("q", "k", <<>>, <<Leaf("y", "", <<>>)>>, <<>>) }

MergeDocuments ==
    { << OperationDefinition("", "query", <<Place(pair[1], <<1>>), Place(pair[2], <<2>>)>>),
         Place(FragmentDefinition("F", "Obj", <<>>, <<Leaf("x", "", <<>>)>>, <<>>), <<101>>) >> :
        pair \in Pairs(MergeNodesO) \cup Pairs(MergeNodesK) }

\* the documents handed to execute() only
DirectDocuments == MultiDocuments \cup VariableDocuments \cup MergeDocuments

Documents ==
    {d \in ScalarDocuments \cup ObjectDocuments :
        \A j \in 1..Len(d[1].selection_set) :
            d[1].selection_set[j].name \in
                {it.name : it \in RootItemsOf(d[1].operation, ScalarItems \cup ObjectItems)}}

\* get_named_type(type): the type with its List and NonNull wrappers removed
NamedType(type) ==
    IF TypeDef(type).of_type = "none" THEN type ELSE
    IF TypeDef(TypeDef(type).of_type).of_type = "none" THEN TypeDef(type).of_type
    ELSE TypeDef(TypeDef(type).of_type).of_type

IsListType(type) ==
    \/ TypeDef(type).kind = "List"
    \/ TypeDef(type).kind = "NonNull" /\ TypeDef(TypeDef(type).of_type).kind = "List"

RECURSIVE Validates(_, _, _)
\* FieldsOnCorrectType and ScalarLeafs report nothing on the selections, seen
\* under parent_type
Validates(sch, selections, parent_type) ==
    \A j \in 1..Len(selections) :
        LET node == selections[j]
            type == get_field_def(sch, parent_type, node.name).type
        IN  /\ type # "none"
            /\ IF TypeDef(NamedType(type)).kind = "Scalar"
               THEN node.selection_set = <<>>
               ELSE /\ node.selection_set # <<>>
                    /\ Validates(sch, node.selection_set, NamedType(type))

(***************************************************************************)
(* The resolve functions.  A resolver is a function of its source and its  *)
(* field; what it does is fixed the first time it is called (resolvers).   *)
(*   ret v    it returns v                                                 *)
(*   raise    it raises Exception("boom")                                  *)
(* A coroutine function suspends once before it does either.               *)
(***************************************************************************)
Out(k, v) == [k |-> k, v |-> v]

\* the objects a resolver called on source may return: every source has objects
\* of its own, position i of a list holds its own object; a list holds at most
\* one nil
ObjectAt(source, i) == Object(source.id * (MaxItems + 1) + i)

ItemValues(type, source, i) ==
    IF NamedType(type) = "String" THEN {None, Str("hey")}
    ELSE {None, ObjectAt(source, i)}

\* default_resolve_fn is an ordinary function: the attribute it reads from the
\* source, or the method it calls, may give a pending awaitable
PendingValues(source) == IF source = Object(0) THEN {} ELSE {Pending(Str("hey"))}

ReturnValues(type, source) ==
    IF IsListType(type)
    THEN {None} \cup
         { List(items) : items \in
             { s \in Seqs({None, Str("hey")} \cup {ObjectAt(source, i) : i \in 1..MaxItems},
                          0, MaxItems) :
                 /\ \A i \in 1..Len(s) : s[i] \in ItemValues(type, source, i)
                 /\ Cardinality({i \in 1..Len(s) : s[i] = None}) <= 1 } }
    ELSE IF NamedType(type) = "String"
    THEN {None, Str("hey"), Str(""), Num(0)} \cup PendingValues(source)
    ELSE {None, ObjectAt(source, 1)}

Outcomes(type, source) ==
    {Out("ret", v) : v \in ReturnValues(type, source)} \cup {Out("raise", None)}

\* the outcomes of a resolver that gives its field a value: a non-empty string,
\* an object, a non-empty list of such
IsPlain(out) ==
    /\ out.k = "ret"
    /\ out.v.t \in {"str", "obj", "list"}
    /\ Truthy(out.v)
    /\ out.v.t = "list" => \A i \in 1..Len(out.v.items) : out.v.items[i] # None

\* every resolver called so far gave its field a value.  At most one resolver of
\* a request does anything else: the first to do so is the last.
AllPlain == \A k \in DOMAIN resolvers : IsPlain(resolvers[k])

\* the root fields have resolve functions of their own, coroutine functions when
\* coroutines is set; the fields of Obj are read by default_resolve_fn
IsCoroutineFunction(source) == coroutines /\ source = Object(0)

\* the exception a failing resolver raises
Boom == Exc("Exception", "boom", <<>>, None)

(***************************************************************************)
(* The initial states: a request about to be handed to graphql() or to     *)
(* execute().  graphql() validates first: validate() reports something on  *)
(* a document that queries an undefined field or breaks the leaf rule.     *)
(***************************************************************************)
ValidationErrors == { <<GraphQLError("invalid", <<>>)>>,
                      <<GraphQLError("invalid", <<>>), GraphQLError("invalid too", <<>>)>> }

Root == Object(0)

EntryFrame(e) == Frame(e, "start", "none", Root, <<>>, 0, <<>>, <<>>)

\* no call of get_type_map, no validation traversal
Untouched == type_map = None /\ callers = <<>> /\ info = None

Init ==
    /\ mode \in {"sync", "async"}
    /\ entry \in {"graphql", "execute"}
    /\ document \in Documents \cup DirectDocuments
    /\ schema \in { [query |-> "Query", mutation |-> m] :
                      m \in IF document[1].operation = "mutation"
                            THEN {"Mutation", "none"} ELSE {"none"} }
    /\ LET root_type == get_operation_root_type(schema, document[1])
           \* without a type to look the fields up on, the rules report nothing
           valid == root_type.ok => Validates(schema, document[1].selection_set, root_type.type)
       IN  /\ IF document \in DirectDocuments THEN entry = "execute"
              ELSE valid => entry = "graphql"
           /\ valErrors \in IF entry = "execute" \/ valid THEN {<<>>} ELSE ValidationErrors
    /\ operation_name \in IF entry = "execute" THEN {"", "A", "Other"} ELSE {""}
    /\ coroutines = (mode = "async")
    /\ resolvers = << >>
    /\ stack = <<EntryFrame(entry)>>
    /\ ret = NoRet
    /\ errors = <<>>
    /\ calls = <<>>
    /\ first = NoRet
    /\ Untouched

\* the request, with the schema's type map and the validator's TypeInfo, which
\* the executor's steps leave alone
request == <<mode, entry, schema, document, operation_name, valErrors, coroutines,
             type_map, callers, info>>

(***************************************************************************)
(* graphql(schema, request, root, vars, operation_name), both packages.    *)
(***************************************************************************)
\* a validation that never reports
NeverInvalid(validation_errors) == FALSE

\* `if validation_errors:`
Invalid(validation_errors) == validation_errors # <<>>

graphql ==
    /\ stack # <<>> /\ Top.fn = "graphql"
    /\ IF Top.pc = "start"
       THEN IF Invalid(valErrors)
            THEN /\ stack' = Pop
                 /\ ret' = RetVal(ExecutionResult(None, List(valErrors)))
            ELSE /\ stack' = Call([Top EXCEPT !.pc = "wait"], <<EntryFrame("execute")>>)
                 /\ ret' = NoRet
       ELSE \* return execute(...): its result or its exception is graphql's
            /\ ret.k # "none"
            /\ stack' = Pop
            /\ ret' = ret
    /\ UNCHANGED <<request, resolvers, errors, calls, first>>

(***************************************************************************)
(* execute(schema, root, ast, operation_name, args): it drives execute_gen *)
(* and calls execute_operation in between.  Nothing is ever thrown into    *)
(* the generator: what execute_operation raises leaves execute.            *)
(***************************************************************************)
execute ==
    /\ stack # <<>> /\ Top.fn = "execute"
    /\ IF Top.pc = "start"
       THEN LET ctx == ExecutionContext(document, operation_name)
                root_type == get_operation_root_type(schema, ctx.operation)
            IN  /\ errors' = <<>>
                /\ IF ~ ctx.ok
                   THEN stack' = Pop /\ ret' = RetExc(ctx.error)
                   ELSE IF ~ root_type.ok
                   THEN stack' = Pop /\ ret' = RetExc(root_type.error)
                   ELSE /\ stack' = Call([Top EXCEPT !.pc = "wait"],
                               << FieldsFrame(root_type.type, Top.source,
                                      collect_fields(ctx.fragments, root_type.type,
                                          ctx.operation.selection_set, <<>>, {}).fields) >>)
                        /\ ret' = NoRet
       ELSE /\ ret.k # "none"
            /\ stack' = Pop
            /\ ret' = IF ret.k = "val"
                      THEN RetVal(ExecuteGenResult(ret.v, errors))
                      ELSE ret
            /\ UNCHANGED errors
    /\ UNCHANGED <<request, resolvers, calls, first>>

(***************************************************************************)
(* execute_fields_serially (execute_fields falls back to it): the loop of  *)
(* execute_fields_serially_gen and the driver's `except StopIteration`.    *)
(***************************************************************************)
\* return exc.args and exc.args[0] or None     (synchronous driver)
SerialReturnSync(v) == ArgsAndOr(v)
\* return exc.args[0]                          (asyncio driver)
SerialReturnAsync(v) == ArgsFirst(v)
SerialReturn(v) == IF mode = "sync" THEN SerialReturnSync(v) ELSE SerialReturnAsync(v)

\* results after `if result is not Undefined: results[response_name] = result`
StoreResult(results, response_name, result) ==
    IF result # Undefined
    THEN Append(results, [key |-> response_name, val |-> result])
    ELSE results

\* the index, in fields.items(), of the field resolved after the idx-th
NextField(idx) == idx + 1

execute_fields_serially ==
    /\ stack # <<>> /\ Top.fn = "execute_fields_serially"
    /\ Top.pc = "start" \/ ret.k # "none"
    /\ IF ret.k = "exc"
       THEN \* raised by resolve_field(*args)
            IF mode = "sync" /\ ret.e.cls = "StopIteration"
            THEN stack' = Pop /\ ret' = RetVal(SerialReturnSync(ret.e.arg))
            ELSE stack' = Pop /\ ret' = ret
       ELSE LET results == IF Top.pc = "start" THEN Top.acc
                           ELSE StoreResult(Top.acc, Top.fields[Top.idx].key, ret.v)
            IN  IF Top.idx < Len(Top.fields)
                THEN /\ stack' = Call([Top EXCEPT !.pc = "wait", !.idx = NextField(Top.idx),
                                                  !.acc = results],
                            << Frame("resolve_field", "start", Top.type, Top.source,
                                     <<>>, 0, <<>>, Top.fields[NextField(Top.idx)].asts) >>)
                     /\ ret' = NoRet
                ELSE /\ stack' = Pop
                     /\ ret' = RetVal(SerialReturn(Dict(results)))
    /\ UNCHANGED <<request, resolvers, errors, calls, first>>

(***************************************************************************)
(* resolve_field: resolve_field_gen up to its first yield, the call of the *)
(* resolve function by the driver, and the completion of what it returned. *)
(* The driver calls the resolve function itself and throws nothing into    *)
(* the generator, so what the function raises leaves resolve_field as it   *)
(* is.  When the field has no definition the generator returns Undefined   *)
(* before yielding and next(resolver) raises StopIteration(Undefined): in  *)
(* the synchronous driver it leaves resolve_field; in the asyncio driver   *)
(* resolve_field is a coroutine, where it becomes a RuntimeError.          *)
(***************************************************************************)
ResolverKey(frame) == <<frame.source.id, frame.asts[1].name>>

CallEntry(frame) ==
    [id |-> frame.asts[1].id, source |-> frame.source.id, name |-> frame.asts[1].name]

\* next(resolver) on a field without definition, in each driver
NoFieldDefSync == StopIteration(Undefined)
NoFieldDefAsync == Exc("RuntimeError", "coroutine raised StopIteration", <<>>, None)

resolve_field ==
    /\ stack # <<>> /\ Top.fn = "resolve_field"
    /\ IF Top.pc = "start"
       THEN LET field_ast == Top.asts[1]
                return_type == get_field_def(schema, Top.type, field_ast.name).type
            IN  IF return_type = "none"
                THEN /\ stack' = Pop
                     /\ ret' = RetExc(IF mode = "sync" THEN NoFieldDefSync ELSE NoFieldDefAsync)
                     /\ UNCHANGED <<resolvers, calls>>
                ELSE \E out \in IF ResolverKey(Top) \in DOMAIN resolvers
                                THEN {resolvers[ResolverKey(Top)]}
                                ELSE {o \in Outcomes(return_type, Top.source) :
                                        IsPlain(o) \/ AllPlain} :
                        /\ resolvers' = IF ResolverKey(Top) \in DOMAIN resolvers THEN resolvers
                                        ELSE resolvers @@ (ResolverKey(Top) :> out)
                        /\ calls' = Append(calls, CallEntry(Top))
                        /\ IF mode = "async" /\ IsCoroutineFunction(Top.source)
                           THEN \* await fn(*fn_args)
                                /\ stack' = Call([Top EXCEPT !.pc = "await"], <<>>)
                                /\ ret' = NoRet
                           ELSE IF out.k = "raise"
                           THEN stack' = Pop /\ ret' = RetExc(Boom)
                           ELSE /\ stack' = Call([Top EXCEPT !.pc = "wait", !.type = return_type],
                                       CatchingFrames(return_type, Top.asts, out.v))
                                /\ ret' = NoRet
       ELSE \* return complete_value_catching_error(...)
            /\ Top.pc = "wait"
            /\ ret.k # "none"
            /\ stack' = Pop
            /\ ret' = ret
            /\ UNCHANGED <<resolvers, calls>>
    /\ UNCHANGED <<request, errors, first>>

\* the awaited resolver coroutine finishes: the event loop resumes resolve_field
resolver_done ==
    /\ stack # <<>> /\ Top.fn = "resolve_field" /\ Top.pc = "await"
    /\ LET out == resolvers[ResolverKey(Top)]
           return_type == get_field_def(schema, Top.type, Top.asts[1].name).type
       IN  IF out.k = "raise"
           THEN stack' = Pop /\ ret' = RetExc(Boom)
           ELSE /\ stack' = Call([Top EXCEPT !.pc = "wait", !.type = return_type],
                       CatchingFrames(return_type, Top.asts, out.v))
                /\ ret' = NoRet
    /\ UNCHANGED <<request, resolvers, errors, calls, first>>

(***************************************************************************)
(* complete_value_catching_error: the except clause around complete_value. *)
(***************************************************************************)
\* an error put in front of the list
errors_prepend(ctx_errors, e) == <<e>> \o ctx_errors

\* ctx.errors.append(e)
errors_append(ctx_errors, e) == Append(ctx_errors, e)

complete_value_catching_error ==
    /\ stack # <<>> /\ Top.fn = "complete_value_catching_error"
    /\ ret.k # "none"
    /\ stack' = Pop
    /\ IF ret.k = "exc" /\ ~ IsNonNull(Top.type)
       THEN errors' = errors_append(errors, ret.e) /\ ret' = RetVal(None)
       ELSE errors' = errors /\ ret' = ret
    /\ UNCHANGED <<request, resolvers, calls, first>>

(***************************************************************************)
(* complete_value: complete_value_gen and the loop that drives it.  What   *)
(* the generator returns reaches the caller as                             *)
(* `exc.args and exc.args[0] or None`.                                     *)
(***************************************************************************)
CompleteReturn(v) == ArgsAndOr(v)

NullError(field_asts) ==
    GraphQLError("Cannot return null for non-nullable type.", NodeIds(field_asts))

\* a completed item put in front of the items completed before it
retval_prepend(retval, completed) == <<completed>> \o retval

\* retval.append(completed)
retval_append(retval, completed) == Append(retval, completed)

complete_value ==
    /\ stack # <<>> /\ Top.fn = "complete_value"
    /\ LET return_type == Top.type
           result == Top.source
           kind == TypeDef(return_type).kind
           of_type == TypeDef(return_type).of_type
       IN
       IF Top.pc = "start"
       THEN IF kind = "NonNull"
            THEN /\ stack' = Call([Top EXCEPT !.pc = "wait_inner"],
                        << Frame("complete_value", "start", of_type, result,
                                 <<>>, 0, <<>>, Top.asts) >>)
                 /\ ret' = NoRet
            ELSE IF is_nullish(result)
            THEN stack' = Pop /\ ret' = RetVal(CompleteReturn(None))
            ELSE IF kind = "List"
            THEN \* result is a list: the assert on collections.Iterable passes
                 IF result.items = <<>>
                 THEN stack' = Pop /\ ret' = RetVal(CompleteReturn(List(<<>>)))
                 ELSE /\ stack' = Call([Top EXCEPT !.pc = "wait_item", !.idx = 1],
                             CatchingFrames(of_type, Top.asts, result.items[1]))
                      /\ ret' = NoRet
            ELSE IF kind = "Scalar"
            THEN LET serialized_result == serialize(return_type, result)
                 IN  /\ stack' = Pop
                     /\ ret' = RetVal(CompleteReturn(
                                   IF is_nullish(serialized_result) THEN None
                                   ELSE serialized_result))
            ELSE /\ stack' = Call([Top EXCEPT !.pc = "wait_fields"],
                        << FieldsFrame(return_type, result,
                               CollectSubfields(
                                   ExecutionContext(document, operation_name).fragments,
                                   return_type, Top.asts)) >>)
                 /\ ret' = NoRet
       ELSE /\ ret.k # "none"
            /\ IF ret.k = "exc"
               THEN stack' = Pop /\ ret' = ret
               ELSE IF Top.pc = "wait_inner"
               THEN /\ stack' = Pop
                    /\ ret' = IF ret.v = None
                              THEN RetExc(NullError(Top.asts))
                              ELSE RetVal(CompleteReturn(ret.v))
               ELSE IF Top.pc = "wait_item"
               THEN LET retval == retval_append(Top.acc, ret.v)
                    IN  IF Top.idx < Len(result.items)
                        THEN /\ stack' = Call([Top EXCEPT !.idx = Top.idx + 1, !.acc = retval],
                                    CatchingFrames(of_type, Top.asts, result.items[Top.idx + 1]))
                             /\ ret' = NoRet
                        ELSE /\ stack' = Pop
                             /\ ret' = RetVal(CompleteReturn(List(retval)))
               ELSE \* wait_fields: return (yield 'execute_fields', ...)
                    /\ stack' = Pop
                    /\ ret' = RetVal(CompleteReturn(ret.v))
    /\ UNCHANGED <<request, resolvers, errors, calls, first>>

(***************************************************************************)
(* The caller runs the request it ran in the synchronous package again in  *)
(* the asyncio package, with the same resolve functions.                   *)
(***************************************************************************)
run_async ==
    /\ stack = <<>> /\ mode = "sync" /\ first.k = "none"
    /\ first' = ret
    /\ mode' = "async"
    /\ stack' = <<EntryFrame(entry)>>
    /\ ret' = NoRet
    /\ errors' = <<>>
    /\ calls' = <<>>
    /\ UNCHANGED <<entry, schema, document, operation_name, valErrors, coroutines,
                   resolvers, type_map, callers, info>>

Next ==
    \/ graphql
    \/ execute
    \/ execute_fields_serially
    \/ resolve_field
    \/ resolver_done
    \/ complete_value_catching_error
    \/ complete_value
    \/ run_async

Spec == Init /\ [][Next]_vars

(***************************************************************************)
(* Calls of the pure functions of the executor.  A call is a frame on the  *)
(* stack, entry names the function called, document holds the fragment     *)
(* definitions of the context and ret receives what the call returns.      *)
(***************************************************************************)
Skip(if) == Directive("skip", if)
Include(if) == Directive("include", if)

\* the directive lists of a node: at most one @skip and one @include, in
\* either order
DirectiveLists ==
    {<<>>}
    \cup {<<Skip(b)>> : b \in BOOLEAN} \cup {<<Include(b)>> : b \in BOOLEAN}
    \cup {<<Skip(b), Include(c)>> : b \in BOOLEAN, c \in BOOLEAN}
    \cup {<<Include(c), Skip(b)>> : b \in BOOLEAN, c \in BOOLEAN}

\* the directive lists tried on a fragment or a spread
FragmentDirectiveLists ==
    { <<Skip(TRUE), Include(TRUE)>>, <<Include(TRUE), Skip(TRUE)>>,
      <<Skip(FALSE), Include(FALSE)>>, <<Include(FALSE)>> }

\* the type conditions tried: the object types, the abstract types, a scalar
\* and a name the schema does not define
TypeConditions == {"Obj", "Other", "Node", "Either", "Lone", "String", "Missing"}

\* F and G spread each other; H is on another object type, I on the interface
\* Obj implements, S is skipped by a directive of its definition
FragmentDefinitions ==
    << Place(FragmentDefinition("F", "Obj", <<>>,
                 <<Leaf("x", "", <<>>), FragmentSpread("G", <<>>, <<>>)>>, <<>>), <<101>>),
       Place(FragmentDefinition("G", "Obj", <<>>,
                 <<Leaf("y", "", <<>>), FragmentSpread("F", <<>>, <<>>)>>, <<>>), <<102>>),
       Place(FragmentDefinition("H", "Other", <<>>, <<Leaf("x", "", <<>>)>>, <<>>), <<103>>),
       Place(FragmentDefinition("I", "Node", <<>>, <<Leaf("y", "", <<>>)>>, <<>>), <<104>>),
       Place(FragmentDefinition("S", "Obj", <<Skip(TRUE)>>, <<Leaf("x", "", <<>>)>>, <<>>),
             <<105>>) >>

FieldNodes ==
    {Leaf("x", "", d) : d \in DirectiveLists}
    \cup {Leaf("y", "", <<>>), Leaf("x", "k", <<>>), Leaf("y", "x", <<>>)}

InlineNodes ==
    {InlineFragment(c, d, <<Leaf("x", "", <<>>), Leaf("y", "", <<>>)>>, <<>>) :
        c \in TypeConditions, d \in {<<>>}}
    \cup {InlineFragment("Obj", d, <<Leaf("x", "", <<>>), Leaf("y", "", <<>>)>>, <<>>) :
             d \in FragmentDirectiveLists}

\* Z is no fragment of the document
SpreadNodes ==
    {FragmentSpread(n, <<>>, <<>>) : n \in {"F", "G", "H", "I", "S", "Z"}}
    \cup {FragmentSpread("F", d, <<>>) : d \in FragmentDirectiveLists}

SelectionNodes == FieldNodes \cup InlineNodes \cup SpreadNodes

\* the selection sets collect_fields is called on
SelectionSets ==
    { [j \in 1..Len(sel) |-> Place(sel[j], <<j>>)] : sel \in Seqs(SelectionNodes, 1, MaxSel) }

\* the runtime object types collect_fields is called for
RuntimeTypes == {"Obj", "Other"}

\* the schemas get_field_def is called with: the query root, and the mutation
\* root when there is one
Schemas ==
    { [query |-> q, mutation |-> m] :
        q \in {"Query", "Other"}, m \in {"none", "Mutation", "Other"} }

\* the parent types the executor looks fields up on
ObjectTypes == {"Query", "Mutation", "Obj", "Other"}

\* the parent types the validation looks fields up on: any type, or none
ParentTypes == ObjectTypes \cup {"Node", "Either", "String", "none"}

FieldNames == {"__schema", "__type", "__typename", "x", "a", "zz"}

(***************************************************************************)
(* ResolveInfo: what a resolver reads from its third argument.  The        *)
(* context is the ExecutionContext object with the attributes its          *)
(* constructor assigns; reading an attribute that was never assigned       *)
(* raises AttributeError.                                                  *)
(***************************************************************************)
\* the attributes ExecutionContext.__init__ sets on self, for a caller that
\* passes no variable values
ContextAttributes(sch, root, doc, given_name) ==
    LET ctx == ExecutionContext(doc, given_name)
    IN  [schema |-> sch, fragments |-> ctx.fragments, root |-> root,
         operation |-> ctx.operation, variables |-> Dict(<<>>), errors |-> <<>>]

\* an attribute value, as the result of a call
Attr(value) == [t |-> "attr", value |-> value]

\* obj.name
getattr(obj, name) ==
    IF name \in DOMAIN obj THEN RetVal(Attr(obj[name])) ELSE RetExc(AttributeError(name))

\* the properties of ResolveInfo
InfoProperties == {"schema", "fragments", "root_value", "operation", "variable_values"}

\* info.property: each property returns self.context.<attribute>
ResolveInfo(context, property) ==
    getattr(context, CASE property = "schema" -> "schema"
                       [] property = "fragments" -> "fragments"
                       [] property = "root_value" -> "root_value"
                       [] property = "operation" -> "operation"
                       [] property = "variable_values" -> "variables")

(***************************************************************************)
(* NoFragmentCycles, the validation rule.  The rule object keeps           *)
(* spreads_in_fragment, the spread nodes of every fragment definition by   *)
(* the fragment's name, and known_to_lead_to_cycle, the spreads of the     *)
(* cycles reported so far; the visitor calls enter_FragmentDefinition on   *)
(* the fragment definitions in document order.                             *)
(***************************************************************************)
RECURSIVE gather_spreads(_)
\* the FragmentSpread nodes below the selections, in document order
gather_spreads(selections) ==
    IF selections = <<>> THEN <<>>
    ELSE LET node == Head(selections)
         IN  (IF node.kind = "FragmentSpread" THEN <<node>>
              ELSE gather_spreads(node.selection_set))
             \o gather_spreads(Tail(selections))

\* {name: gather_spreads(node) for the fragment definitions}
spreads_in_fragment(doc) ==
    [name \in FragmentNames(Fragments(doc)) |->
        gather_spreads(FragmentNamed(Fragments(doc), name).selection_set)]

\* fragment_node_to_hashable: (loc.start, loc.end, name), the node's place
fragment_node_to_hashable(fs) == <<fs.id, fs.name>>

KeyError(key) == Exc("KeyError", key, <<>>, None)

\* GraphQLError(cycle_error_message(initial_name, names of spread_path), cycle_path)
CycleError(initial_name, spread_path, cycle_path) ==
    Exc("GraphQLError", "Cannot spread fragment within itself", NodeIds(cycle_path),
        [t |-> "cycle", fragment |-> initial_name,
         via |-> [i \in 1..Len(spread_path) |-> spread_path[i].name]])

\* a spread that is never taken for one of the fragment checked
NeverInitial(spread_node, initial_name) == FALSE

\* spread_node.name.value == initial_name
SpreadsInitial(spread_node, initial_name) == spread_node.name = initial_name

\* a rule that keeps no record of the cycles it has reported
CyclesForgotten(known, cycle_path) == known

\* self.known_to_lead_to_cycle |= set(map(fragment_node_to_hashable, cycle_path))
known_to_lead_to_cycle(known, cycle_path) ==
    known \cup {fragment_node_to_hashable(cycle_path[i]) : i \in 1..Len(cycle_path)}

\* the rule's state while a fragment is checked: the known spreads, the errors
\* of this fragment, and the exception raised, if any
RuleState(known, errs, exc) == [known |-> known, errors |-> errs, exc |-> exc]

RECURSIVE detect_cycle_recursive(_, _, _, _, _)
RECURSIVE DetectLoop(_, _, _, _, _, _)
detect_cycle_recursive(spreads, initial_name, fragment_name, spread_path, st) ==
    IF fragment_name \notin DOMAIN spreads
    THEN [st EXCEPT !.exc = KeyError(fragment_name)]
    ELSE DetectLoop(spreads, initial_name, spreads[fragment_name], 1, spread_path, st)

\* `for spread_node in spread_nodes`, from the j-th node on
DetectLoop(spreads, initial_name, spread_nodes, j, spread_path, st) ==
    IF st.exc # NoExc \/ j > Len(spread_nodes) THEN st
    ELSE LET spread_node == spread_nodes[j]
             cycle_path == Append(spread_path, spread_node)
         IN  IF fragment_node_to_hashable(spread_node) \in st.known
             THEN DetectLoop(spreads, initial_name, spread_nodes, j + 1, spread_path, st)
             ELSE IF SpreadsInitial(spread_node, initial_name)
             THEN DetectLoop(spreads, initial_name, spread_nodes, j + 1, spread_path,
                      RuleState(known_to_lead_to_cycle(st.known, cycle_path),
                                Append(st.errors,
                                       CycleError(initial_name, spread_path, cycle_path)),
                                NoExc))
             ELSE IF \E i \in 1..Len(spread_path) : spread_path[i].id = spread_node.id
             THEN DetectLoop(spreads, initial_name, spread_nodes, j + 1, spread_path, st)
             ELSE DetectLoop(spreads, initial_name, spread_nodes, j + 1, spread_path,
                      detect_cycle_recursive(spreads, initial_name, spread_node.name,
                                             cycle_path, st))

\* enter_FragmentDefinition(node) with the known spreads: the state after it
enter_FragmentDefinition(spreads, node, known) ==
    detect_cycle_recursive(spreads, node.name, node.name, <<>>, RuleState(known, <<>>, NoExc))

RECURSIVE VisitFragments(_, _, _, _)
\* the rule run over the fragment definitions from the i-th on: the errors the
\* hooks returned, or the exception one of them raised
VisitFragments(doc, i, known, errs) ==
    IF i > Len(Fragments(doc)) THEN RetVal(List(errs))
    ELSE LET st == enter_FragmentDefinition(spreads_in_fragment(doc), Fragments(doc)[i], known)
         IN  IF st.exc # NoExc THEN RetExc(st.exc)
             ELSE VisitFragments(doc, i + 1, st.known, errs \o st.errors)

NoFragmentCycles(doc) == VisitFragments(doc, 1, {}, <<>>)

\* the fragment definitions the rule is run on: A, B and C on Obj, the body of
\* each a sequence of spreads of A, B and C, or `p { ...A }`, or the spread of
\* Z, which has no definition
CycleNames == <<"A", "B", "C">>

CycleBodies ==
    Seqs({FragmentSpread(CycleNames[n], <<>>, <<>>) : n \in 1..Len(CycleNames)}, 0, MaxSel)
    \cup { << Field("p", "", <<>>, <<FragmentSpread("A", <<>>, <<>>)>>, <<>>) >>,
           << FragmentSpread("Z", <<>>, <<>>) >> }

CycleDocuments ==
    { [i \in 1..Len(CycleNames) |->
          Place(FragmentDefinition(CycleNames[i], "Obj", <<>>, body[i], <<>>), <<200 + i>>)] :
        body \in [1..Len(CycleNames) -> CycleBodies] }

CallFrame(fn, type, asts) == Frame(fn, "start", type, Root, <<>>, 0, <<>>, asts)

(***************************************************************************)
(* LanguageError (graphql/core/language/error.py).  A text is the sequence *)
(* of its characters; a source body is written with the letter a and the   *)
(* line feed.                                                              *)
(***************************************************************************)
MaxBody == 4   \* characters of a source body

LF == "\n"
Digits == <<"0", "1", "2", "3", "4", "5", "6", "7", "8", "9">>

\* str(n) of an integer n >= 0
RECURSIVE str(_)
str(n) == IF n < 10 THEN <<Digits[n + 1]>> ELSE str(n \div 10) \o <<Digits[(n % 10) + 1]>>

\* ' ' * n
Spaces(n) == [i \in 1..n |-> " "]

\* an index out of the range of a list
IndexError == Exc("IndexError", "list index out of range", <<>>, None)

\* body.splitlines(): the lines of the body without their line feeds; a line
\* feed at the end of the body opens no further line
RECURSIVE splitlines(_)
splitlines(body) ==
    IF body = <<>> THEN <<>>
    ELSE IF \E i \in 1..Len(body) : body[i] = LF
    THEN LET i == CHOOSE j \in 1..Len(body) :
                      body[j] = LF /\ \A k \in 1..(j - 1) : body[k] # LF
         IN  <<SubSeq(body, 1, i - 1)>> \o splitlines(SubSeq(body, i + 1, Len(body)))
    ELSE <<body>>

\* the line feeds of the body before the position
FeedsBefore(body, position) == {i \in 1..position : body[i] = LF}

\* get_location(source, position): the 1-based line and column of the
\* 0-based position
get_location(body, position) ==
    LET feeds == FeedsBefore(body, position)
        last == IF feeds = {} THEN 0 ELSE CHOOSE i \in feeds : \A j \in feeds : j <= i
    IN  [line |-> Cardinality(feeds) + 1, column |-> position - last + 1]

\* (u'{:>' + str(pad_len) + '}: {}\n').format(number, text)
format_line(pad_len, number, text) ==
    LET digits == str(number)
    IN  Spaces(IF pad_len > Len(digits) THEN pad_len - Len(digits) ELSE 0)
        \o digits \o <<":", " ">> \o text \o <<LF>>

\* highlight_source_at_location(source, location): the text, or the
\* IndexError of lines[line - 1] when the list has fewer than line lines
highlight_source_at_location(body, location) ==
    LET line == location.line
        lines == splitlines(body)
        pad_len == Len(str(line + 1))
    IN  IF line > Len(lines)
        THEN RetExc(IndexError)
        ELSE RetVal(Str(
                 (IF line >= 2 THEN format_line(pad_len, line - 1, lines[line - 1]) ELSE <<>>)
                 \o format_line(pad_len, line, lines[line])
                 \o Spaces(1 + pad_len + location.column) \o <<"^", LF>>
                 \o (IF line < Len(lines) THEN format_line(pad_len, line + 1, lines[line + 1])
                     ELSE <<>>)))

SyntaxError == <<"S", "y", "n", "t", "a", "x", " ", "E", "r", "r", "o", "r", " ">>

\* u'Syntax Error {} ({}:{}) {}\n\n'.format(name, line, column, description)
Heading(name, location, description) ==
    SyntaxError \o name \o <<" ", "(">> \o str(location.line) \o <<":">>
    \o str(location.column) \o <<")", " ">> \o description \o <<LF, LF>>

\* LanguageError.__str__ for a source of this name and body
LanguageError(name, body, position, description) ==
    LET location == get_location(body, position)
        highlight == highlight_source_at_location(body, location)
    IN  IF highlight.k = "exc" THEN highlight
        ELSE RetVal(Str(Heading(name, location, description) \o highlight.v.s))

SourceName == <<"G", "r", "a", "p", "h", "Q", "L">>
Description == <<"U", "n", "e", "x", "p", "e", "c", "t", "e", "d">>

\* the bodies of at most MaxBody characters
Bodies == UNION {[1..n -> {"a", LF}] : n \in 0..MaxBody}

\* str(error) for a LanguageError at the position the frame holds
call_LanguageError ==
    /\ stack # <<>> /\ Top.fn = "LanguageError" /\ Top.pc = "start"
    /\ ret' = LanguageError(SourceName, document, Top.idx, Description)
    /\ stack' = <<[Top EXCEPT !.pc = "done"]>>
    /\ UNCHANGED <<request, resolvers, errors, calls, first>>

InitCalls ==
    /\ Untouched
    /\ mode = "sync"
    /\ coroutines = FALSE
    /\ operation_name = ""
    /\ valErrors = <<>>
    /\ resolvers = << >>
    /\ errors = <<>>
    /\ calls = <<>>
    /\ first = NoRet
    /\ ret = NoRet
    /\ \/ /\ entry = "collect_fields"
          /\ schema = [query |-> "Query", mutation |-> "none"]
          /\ document = FragmentDefinitions
          /\ \E type \in RuntimeTypes, selections \in SelectionSets :
                 stack = <<CallFrame("collect_fields", type, selections)>>
       \/ /\ entry = "get_field_def"
          /\ schema \in Schemas
          /\ document = <<>>
          /\ \E parent_type \in ObjectTypes, field_name \in FieldNames :
                 stack = <<CallFrame("get_field_def", parent_type,
                                     <<Leaf(field_name, "", <<>>)>>)>>
       \/ /\ entry = "utils.get_field_def"
          /\ schema \in Schemas
          /\ document = <<>>
          /\ \E parent_type \in ParentTypes, field_name \in FieldNames :
                 stack = <<CallFrame("utils.get_field_def", parent_type,
                                     <<Leaf(field_name, "", <<>>)>>)>>
       \* a resolver of a request for one of the documents reads a property
       \* of its info; the frame's type field holds the property's name
       \/ /\ entry = "NoFragmentCycles"
          /\ schema = [query |-> "Query", mutation |-> "none"]
          /\ document \in CycleDocuments
          /\ stack = <<CallFrame("NoFragmentCycles", "none", <<>>)>>
       \/ /\ entry = "ResolveInfo"
          /\ schema \in Schemas
          /\ document \in MergeDocuments
          /\ \E property \in InfoProperties :
                 stack = <<CallFrame("ResolveInfo", property, <<>>)>>
       \* a LanguageError at a position of a source body, the document
       \/ /\ entry = "LanguageError"
          /\ schema = [query |-> "Query", mutation |-> "none"]
          /\ document \in Bodies
          /\ \E position \in 0..Len(document) :
                 stack = <<Frame("LanguageError", "start", "none", Root, <<>>, position,
                                 <<>>, <<>>)>>

\* collect_fields(ctx, type, selection_set, {}, set())
call_collect_fields ==
    /\ stack # <<>> /\ Top.fn = "collect_fields"
    /\ Top.pc = "start"
    /\ LET collected == collect_fields(Fragments(document), Top.type, Top.asts, <<>>, {})
       IN  ret' = IF HasRaised(collected) THEN RetExc(AttributeError(collected.attribute))
                  ELSE RetVal(collected)
    \* the frame stays, so that the call's arguments can be read with its result
    /\ stack' = <<[Top EXCEPT !.pc = "done"]>>
    /\ UNCHANGED <<request, resolvers, errors, calls, first>>

\* get_field_def(ctx.schema, parent_type, field_name) of the executor
call_get_field_def ==
    /\ stack # <<>> /\ Top.fn = "get_field_def" /\ Top.pc = "start"
    /\ ret' = RetVal(get_field_def(schema, Top.type, Top.asts[1].name))
    /\ stack' = <<[Top EXCEPT !.pc = "done"]>>
    /\ UNCHANGED <<request, resolvers, errors, calls, first>>

\* get_field_def(schema, parent_type, field_ast) of graphql/core/utils.py
call_utils_get_field_def ==
    /\ stack # <<>> /\ Top.fn = "utils.get_field_def" /\ Top.pc = "start"
    /\ ret' = RetVal(utils_get_field_def(schema, Top.type, Top.asts[1].name))
    /\ stack' = <<[Top EXCEPT !.pc = "done"]>>
    /\ UNCHANGED <<request, resolvers, errors, calls, first>>

\* info.<property> read by a resolver: info.context is the request's context
call_ResolveInfo ==
    /\ stack # <<>> /\ Top.fn = "ResolveInfo" /\ Top.pc = "start"
    /\ ret' = ResolveInfo(ContextAttributes(schema, Top.source, document, operation_name),
                          Top.type)
    /\ stack' = <<[Top EXCEPT !.pc = "done"]>>
    /\ UNCHANGED <<request, resolvers, errors, calls, first>>

\* visit(document, NoFragmentCycles(context)) for a document of fragment
\* definitions
call_NoFragmentCycles ==
    /\ stack # <<>> /\ Top.fn = "NoFragmentCycles" /\ Top.pc = "start"
    /\ ret' = NoFragmentCycles(document)
    /\ stack' = <<[Top EXCEPT !.pc = "done"]>>
    /\ UNCHANGED <<request, resolvers, errors, calls, first>>

NextCalls ==
    \/ call_collect_fields
    \/ call_get_field_def
    \/ call_utils_get_field_def
    \/ call_ResolveInfo
    \/ call_NoFragmentCycles
    \/ call_LanguageError

SpecCalls == InitCalls /\ [][NextCalls]_vars

(***************************************************************************)
(* GraphQLSchema and its type map (graphql/core/type/schema.py).  A type   *)
(* reference is the sequence of its wrappers followed by the name of the   *)
(* named type: [A!] is <<"List", "NonNull", "A">>; <<>> is no type (None). *)
(* A schema is its two root types and the definitions of its types.        *)
(***************************************************************************)
MaxCallers == 2   \* callers of get_type_map at a time

NoType == <<>>
Named(name) == <<name>>
ListOf(type) == <<"List">> \o type
NonNullOf(type) == <<"NonNull">> \o type

\* isinstance(type, GraphQLList) or isinstance(type, GraphQLNonNull)
IsWrapper(type) == type # NoType /\ Head(type) \in {"List", "NonNull"}

GraphArg(name, type) == [name |-> name, type |-> type]
GraphField(name, type, args) == [name |-> name, type |-> type, args |-> args]
\* a type definition: its name, its class, get_fields(), get_interfaces() and
\* get_possible_types()
GraphType(name, kind, fields, interfaces, possible_types) ==
    [name |-> name, kind |-> kind, fields |-> fields, interfaces |-> interfaces,
     possible_types |-> possible_types]

GraphNames == {"Q", "M", "A", "B", "I", "U", "In", "E", "String", "Boolean",
               "__Schema", "__Type", "__TypeKind", "__Directive"}

\* the types of a schema: Q { f: f }, M { m: A }, A { g(arg: arg): g } which
\* implements the interfaces impl, B { h: h }, interface I { g: String }, union
\* U = A | B, input In { v: v }, enum E, and the introspection types
GraphTypes(f, g, arg, h, impl, v) ==
    [name \in GraphNames |->
        CASE name = "Q" -> GraphType(name, "Object", <<GraphField("f", f, <<>>)>>, <<>>, <<>>)
          [] name = "M" -> GraphType(name, "Object",
                               <<GraphField("m", Named("A"), <<>>)>>, <<>>, <<>>)
          [] name = "A" -> GraphType(name, "Object",
                               <<GraphField("g", g, IF arg = NoType THEN <<>>
                                                    ELSE <<GraphArg("arg", arg)>>)>>,
                               impl, <<>>)
          [] name = "B" -> GraphType(name, "Object", <<GraphField("h", h, <<>>)>>, <<>>, <<>>)
          [] name = "I" -> GraphType(name, "Interface",
                               <<GraphField("g", Named("String"), <<>>)>>, <<>>,
                               IF impl = <<>> THEN <<>> ELSE <<"A">>)
          [] name = "U" -> GraphType(name, "Union", <<>>, <<>>, <<"A", "B">>)
          [] name = "In" -> GraphType(name, "InputObject",
                                <<GraphField("v", v, <<>>)>>, <<>>, <<>>)
          [] name = "E" -> GraphType(name, "Enum", <<>>, <<>>, <<>>)
          [] name = "__Schema" ->
                 GraphType(name, "Object",
                     <<GraphField("types", NonNullOf(ListOf(NonNullOf(Named("__Type")))), <<>>),
                       GraphField("directives",
                                  NonNullOf(ListOf(NonNullOf(Named("__Directive")))), <<>>)>>,
                     <<>>, <<>>)
          [] name = "__Type" ->
                 GraphType(name, "Object",
                     <<GraphField("kind", Named("__TypeKind"), <<>>),
                       GraphField("name", Named("String"), <<>>),
                       GraphField("ofType", Named("__Type"), <<>>)>>,
                     <<>>, <<>>)
          [] name = "__TypeKind" -> GraphType(name, "Enum", <<>>, <<>>, <<>>)
          [] name = "__Directive" ->
                 GraphType(name, "Object",
                     <<GraphField("name", NonNullOf(Named("String")), <<>>),
                       GraphField("onField", Named("Boolean"), <<>>)>>,
                     <<>>, <<>>)
          [] OTHER -> GraphType(name, "Scalar", <<>>, <<>>, <<>>)]

\* GraphQLSchema(query, mutation): mutation is NoType without a mutation root
GraphQLSchema(mutation, types) == [query |-> "Q", mutation |-> mutation, types |-> types]

RootFieldTypes ==
    {Named(n) : n \in {"String", "A", "B", "I", "U"}}
    \cup {NonNullOf(ListOf(NonNullOf(Named(n)))) : n \in {"A", "I", "U"}}

SchemaGraphs ==
    { GraphQLSchema(mutation, GraphTypes(f, g, arg, h, impl, v)) :
        mutation \in {NoType, Named("M")},
        f \in RootFieldTypes,
        g \in {Named("String"), Named("A"), ListOf(Named("B")), Named("U")},
        arg \in {NoType, Named("String"), NonNullOf(Named("In"))},
        h \in {Named("String"), NonNullOf(Named("A")), Named("I")},
        impl \in {<<>>, <<"I">>},
        v \in {Named("E"), ListOf(Named("In"))} }

\* a type map: the entries of the dict in insertion order
TypeMapOf(entries) == [t |-> "map", entries |-> entries]

\* a name counts as present only from its second entry on
SeenTwice(map, name) == Cardinality({i \in 1..Len(map) : map[i].key = name}) >= 2

\* type.name in map
InMap(map, name) == \E i \in 1..Len(map) : map[i].key = name

RECURSIVE type_map_reducer(_, _, _)
RECURSIVE reduce_types(_, _, _)
RECURSIVE reduce_fields(_, _, _)
\* reduce(type_map_reducer, list, map)
reduce_types(types, list, map) ==
    IF list = <<>> THEN map
    ELSE reduce_types(types, Tail(list), type_map_reducer(types, map, Head(list)))

\* the fields reduced by their types only, the arguments left out
ReturnTypesOnly(types, fields, map) ==
    IF fields = <<>> THEN map
    ELSE reduce_fields(types, Tail(fields),
             type_map_reducer(types, map, Head(fields).type))

\* `for field_name, field in field_map.items()`: the argument types, then the
\* field's type
reduce_fields(types, fields, map) ==
    IF fields = <<>> THEN map
    ELSE LET field == Head(fields)
             field_arg_types == [i \in 1..Len(field.args) |-> field.args[i].type]
         IN  reduce_fields(types, Tail(fields),
                 type_map_reducer(types, reduce_types(types, field_arg_types, map),
                                  field.type))

type_map_reducer(types, map, type) ==
    IF IsWrapper(type) THEN type_map_reducer(types, map, Tail(type))
    ELSE IF type = NoType \/ InMap(map, types[type[1]].name) THEN map
    ELSE LET def == types[type[1]]
             stored == Append(map, [key |-> def.name, type |-> type[1]])
             possible == IF def.kind \in {"Union", "Interface"}
                         THEN reduce_types(types,
                                  [i \in 1..Len(def.possible_types) |->
                                      Named(def.possible_types[i])], stored)
                         ELSE stored
             interfaces == IF def.kind = "Object"
                           THEN reduce_types(types,
                                    [i \in 1..Len(def.interfaces) |->
                                        Named(def.interfaces[i])], possible)
                           ELSE possible
         IN  IF def.kind \in {"Object", "Interface"}
             THEN reduce_fields(types, def.fields, interfaces)
             ELSE interfaces

\* reduce(type_map_reducer, [query, mutation, IntrospectionSchema], {})
build_type_map(sch) ==
    TypeMapOf(reduce_types(sch.types,
                           <<Named(sch.query), sch.mutation, Named("__Schema")>>, <<>>))

(***************************************************************************)
(* get_type_map, called by several threads on one schema.  A caller tests  *)
(* self._type_map, builds the map in a dict of its own, stores it and      *)
(* returns what self._type_map then holds; the threads are interleaved     *)
(* between these steps.                                                    *)
(***************************************************************************)
Caller(pc, built, result) == [pc |-> pc, built |-> built, result |-> result]

\* a test of self._type_map that never finds a map
NeverBuilt(map) == TRUE

\* self._type_map is None
IsNone(map) == map = None

\* what a step of get_type_map leaves alone, self._type_map aside
Elsewhere == <<mode, entry, schema, document, operation_name, valErrors, coroutines,
               resolvers, stack, ret, errors, calls, first, info>>

\* `if self._type_map is None:`
get_type_map_test ==
    /\ \E c \in 1..Len(callers) :
           /\ callers[c].pc = "start"
           /\ callers' = [callers EXCEPT
                             ![c].pc = IF IsNone(type_map) THEN "build" ELSE "return"]
    /\ UNCHANGED <<type_map, Elsewhere>>

\* self._build_type_map(), the right-hand side of the assignment
get_type_map_build ==
    /\ \E c \in 1..Len(callers) :
           /\ callers[c].pc = "build"
           /\ callers' = [callers EXCEPT ![c].pc = "store",
                                         ![c].built = build_type_map(schema)]
    /\ UNCHANGED <<type_map, Elsewhere>>

\* self._type_map = ...
get_type_map_store ==
    /\ \E c \in 1..Len(callers) :
           /\ callers[c].pc = "store"
           /\ type_map' = callers[c].built
           /\ callers' = [callers EXCEPT ![c].pc = "return"]
    /\ UNCHANGED Elsewhere

\* return self._type_map
get_type_map_return ==
    /\ \E c \in 1..Len(callers) :
           /\ callers[c].pc = "return"
           /\ callers' = [callers EXCEPT ![c].pc = "done", ![c].result = type_map]
    /\ UNCHANGED <<type_map, Elsewhere>>

(***************************************************************************)
(* TypeInfo (graphql/core/utils.py) and the traversal that keeps it up to  *)
(* date.  An AST node is its class, its node.name.value and node.operation *)
(* where it has them, and its child nodes in the order they are visited.   *)
(***************************************************************************)
AstNode(kind, name, operation, children) ==
    [kind |-> kind, name |-> name, operation |-> operation, children |-> children]

ast_Name(value) == AstNode("Name", value, "", <<>>)
ast_Variable(name) == AstNode("Variable", name, "", <<ast_Name(name)>>)
ast_IntValue(value) == AstNode("IntValue", value, "", <<>>)
ast_ListValue(values) == AstNode("ListValue", "", "", values)
ast_ObjectField(name, value) == AstNode("ObjectField", name, "", <<ast_Name(name), value>>)
ast_ObjectValue(fields) == AstNode("ObjectValue", "", "", fields)
ast_NamedType(name) == AstNode("NamedType", name, "", <<ast_Name(name)>>)
ast_ListType(type) == AstNode("ListType", "", "", <<type>>)
ast_NonNullType(type) == AstNode("NonNullType", "", "", <<type>>)
ast_Argument(name, value) == AstNode("Argument", name, "", <<ast_Name(name), value>>)
ast_Directive(name, arguments) ==
    AstNode("Directive", name, "", <<ast_Name(name)>> \o arguments)
ast_SelectionSet(selections) == AstNode("SelectionSet", "", "", selections)
\* selection_set is <<>> for a field without one
ast_Field(name, arguments, directives, selection_set) ==
    AstNode("Field", name, "", <<ast_Name(name)>> \o arguments \o directives \o selection_set)
ast_FragmentSpread(name, directives) ==
    AstNode("FragmentSpread", name, "", <<ast_Name(name)>> \o directives)
ast_InlineFragment(type_condition, directives, selection_set) ==
    AstNode("InlineFragment", "", "", <<type_condition>> \o directives \o <<selection_set>>)
ast_FragmentDefinition(name, type_condition, directives, selection_set) ==
    AstNode("FragmentDefinition", name, "",
            <<ast_Name(name), type_condition>> \o directives \o <<selection_set>>)
\* default_value is <<>> for a variable without one
ast_VariableDefinition(variable, type, default_value) ==
    AstNode("VariableDefinition", "", "", <<variable, type>> \o default_value)
ast_OperationDefinition(operation, variable_definitions, directives, selection_set) ==
    AstNode("OperationDefinition", "", operation,
            variable_definitions \o directives \o <<selection_set>>)
ast_Document(definitions) == AstNode("Document", "", "", definitions)

\* node.type_condition of an inline fragment or a fragment definition
type_condition_of(node) ==
    IF node.kind = "InlineFragment" THEN node.children[1] ELSE node.children[2]
\* node.type of a variable definition
type_of(node) == node.children[2]

\* get_named_type(type): the type under its wrappers
get_named_type(type) == IF type = NoType THEN NoType ELSE Named(type[Len(type)])

\* get_nullable_type(type): the type under a NonNull
get_nullable_type(type) ==
    IF type # NoType /\ Head(type) = "NonNull" THEN Tail(type) ELSE type

\* is_composite_type(type)
is_composite_type(types, type) ==
    /\ type # NoType
    /\ ~ IsWrapper(type)
    /\ types[type[1]].kind \in {"Object", "Interface", "Union"}

\* the meta fields of graphql/core/type/introspection.py
GraphSchemaMetaFieldDef == GraphField("__schema", NonNullOf(Named("__Schema")), <<>>)
GraphTypeMetaFieldDef ==
    GraphField("__type", Named("__Type"), <<GraphArg("name", NonNullOf(Named("String")))>>)
GraphTypeNameMetaFieldDef == GraphField("__typename", NonNullOf(Named("String")), <<>>)

\* GraphQLIncludeDirective and GraphQLSkipDirective
GraphDirective(name) ==
    [name |-> name, args |-> <<GraphArg("if", NonNullOf(Named("Boolean")))>>]

\* schema.get_directive(name)
get_directive(name) == IF name \in {"include", "skip"} THEN GraphDirective(name) ELSE None

\* schema.get_type_map(), self._type_map being map
get_type_map(sch, map) == IF IsNone(map) THEN build_type_map(sch) ELSE map

\* schema.get_type(name) with the type map map: the type or no type
get_type(map, name) == IF InMap(map.entries, name) THEN Named(name) ELSE NoType

\* type_from_ast(schema, input_type_ast) of utils.py
RECURSIVE utils_type_from_ast(_, _)
utils_type_from_ast(map, input_type_ast) ==
    IF input_type_ast.kind = "ListType"
    THEN LET inner_type == utils_type_from_ast(map, input_type_ast.children[1])
         IN  IF inner_type # NoType THEN ListOf(inner_type) ELSE NoType
    ELSE IF input_type_ast.kind = "NonNullType"
    THEN LET inner_type == utils_type_from_ast(map, input_type_ast.children[1])
         IN  IF inner_type # NoType THEN NonNullOf(inner_type) ELSE NoType
    ELSE get_type(map, input_type_ast.name)

\* dict.get(name) on the fields of a type: the field or None
FieldNamed(fields, name) ==
    IF \E i \in 1..Len(fields) : fields[i].name = name
    THEN fields[CHOOSE i \in 1..Len(fields) : fields[i].name = name]
    ELSE None

\* get_field_def(schema, parent_type, field_ast) of utils.py
graph_get_field_def(sch, parent_type, name) ==
    LET def == sch.types[parent_type[1]]
    IN  IF name = GraphSchemaMetaFieldDef.name /\ Named(sch.query) = parent_type
        THEN GraphSchemaMetaFieldDef
        ELSE IF name = GraphTypeMetaFieldDef.name /\ Named(sch.query) = parent_type
        THEN GraphTypeMetaFieldDef
        ELSE IF name = GraphTypeNameMetaFieldDef.name
                /\ def.kind \in {"Object", "Interface", "Union"}
        THEN GraphTypeNameMetaFieldDef
        ELSE IF def.kind \in {"Object", "Interface"} THEN FieldNamed(def.fields, name)
        ELSE None

\* TypeInfo(schema): a type on a stack is a type reference, NoType for None
TypeInfo ==
    [type_stack |-> <<>>, parent_type_stack |-> <<>>, input_type_stack |-> <<>>,
     field_def_stack |-> <<>>, directive |-> None, argument |-> None]

\* the four stacks of a TypeInfo
Stacks(self) ==
    <<self.type_stack, self.parent_type_stack, self.input_type_stack, self.field_def_stack>>

\* lst[-1] of a stack of types that is not read when empty
LastOr(lst, default) == IF lst # <<>> THEN lst[Len(lst)] ELSE default

\* pop(lst): lst.pop() if lst is not empty
pop(lst) == IF lst # <<>> THEN SubSeq(lst, 1, Len(lst) - 1) ELSE lst

\* TypeInfo.enter(node), the type map of the schema being map
enter(sch, map, self, node) ==
    CASE node.kind = "SelectionSet" ->
             LET named_type == get_named_type(LastOr(self.type_stack, NoType))
                 composite_type ==
                     IF is_composite_type(sch.types, named_type) THEN named_type ELSE NoType
             IN  [self EXCEPT !.parent_type_stack = Append(@, composite_type)]
      [] node.kind = "Field" ->
             LET parent_type == LastOr(self.parent_type_stack, NoType)
                 field_def == IF parent_type # NoType
                              THEN graph_get_field_def(sch, parent_type, node.name)
                              ELSE None
             IN  [self EXCEPT !.field_def_stack = Append(@, field_def),
                              !.type_stack =
                                  Append(@, IF field_def = None THEN NoType
                                            ELSE field_def.type)]
      [] node.kind = "Directive" ->
             [self EXCEPT !.directive = get_directive(node.name)]
      [] node.kind = "OperationDefinition" ->
             LET type == IF node.operation = "query" THEN Named(sch.query)
                         ELSE IF node.operation = "mutation" THEN sch.mutation
                         ELSE NoType
             IN  [self EXCEPT !.type_stack = Append(@, type)]
      [] node.kind \in {"InlineFragment", "FragmentDefinition"} ->
             [self EXCEPT !.type_stack =
                              Append(@, utils_type_from_ast(map, type_condition_of(node)))]
      [] node.kind = "VariableDefinition" ->
             [self EXCEPT !.input_type_stack =
                              Append(@, utils_type_from_ast(map, type_of(node)))]
      [] node.kind = "Argument" ->
             LET field_or_directive ==
                     IF self.directive # None THEN self.directive
                     ELSE LastOr(self.field_def_stack, None)
                 arg_def == IF field_or_directive # None
                            THEN FieldNamed(field_or_directive.args, node.name)
                            ELSE None
                 arg_type == IF arg_def # None THEN arg_def.type ELSE NoType
             IN  [self EXCEPT !.argument = arg_def,
                              !.input_type_stack = Append(@, arg_type)]
      [] node.kind = "ListValue" ->
             LET list_type == get_nullable_type(LastOr(self.input_type_stack, NoType))
             IN  [self EXCEPT !.input_type_stack =
                                  Append(@, IF list_type # NoType /\ Head(list_type) = "List"
                                            THEN Tail(list_type) ELSE NoType)]
      [] node.kind = "ObjectField" ->
             LET object_type == get_named_type(LastOr(self.input_type_stack, NoType))
                 input_field ==
                     IF object_type # NoType /\ sch.types[object_type[1]].kind = "InputObject"
                     THEN FieldNamed(sch.types[object_type[1]].fields, node.name)
                     ELSE None
             IN  [self EXCEPT !.input_type_stack =
                                  Append(@, IF input_field # None THEN input_field.type
                                            ELSE NoType)]
      [] OTHER -> self

\* TypeInfo.leave(node)
leave(self, node) ==
    CASE node.kind = "SelectionSet" ->
             [self EXCEPT !.parent_type_stack = pop(@)]
      [] node.kind = "Field" ->
             [self EXCEPT !.field_def_stack = pop(@), !.type_stack = pop(@)]
      [] node.kind = "Directive" -> [self EXCEPT !.directive = None]
      [] node.kind \in {"OperationDefinition", "InlineFragment", "FragmentDefinition"} ->
             [self EXCEPT !.type_stack = pop(@)]
      [] node.kind = "VariableDefinition" ->
             [self EXCEPT !.input_type_stack = pop(@)]
      [] node.kind = "Argument" ->
             [self EXCEPT !.argument = None, !.input_type_stack = pop(@)]
      [] node.kind \in {"ListType", "ObjectField"} ->
             [self EXCEPT !.input_type_stack = pop(@)]
      [] OTHER -> self

\* enter(node) reads the type map of the schema: type_from_ast ends in
\* schema.get_type(name), which calls get_type_map()
ReadsTypeMap(node) ==
    node.kind \in {"InlineFragment", "FragmentDefinition", "VariableDefinition"}

(***************************************************************************)
(* visit(root, visitor) with the TypeInfo as visitor: depth first, in      *)
(* document order, enter(node), then the children, then leave(node).  A    *)
(* frame of the traversal is a node entered and not yet left, the index of *)
(* its next child, and the four stacks as they were before it was entered. *)
(***************************************************************************)
VisitFrame(node, next, before) == [node |-> node, next |-> next, before |-> before]

\* what a step of the traversal leaves alone
Traversed == <<mode, entry, schema, document, operation_name, valErrors, coroutines,
               resolvers, errors, calls, first, callers>>

\* enter the root, or the next child of the node on top
visit_enter ==
    /\ entry = "TypeInfo"
    /\ IF stack = <<>> THEN ret = NoRet ELSE Top.next <= Len(Top.node.children)
    /\ LET node == IF stack = <<>> THEN document ELSE Top.node.children[Top.next]
           map == get_type_map(schema, type_map)
       IN  /\ info' = enter(schema, map, info, node)
           /\ type_map' = IF ReadsTypeMap(node) THEN map ELSE type_map
           /\ stack' = (IF stack = <<>> THEN <<>>
                        ELSE Append(Pop, [Top EXCEPT !.next = @ + 1]))
                       \o <<VisitFrame(node, 1, Stacks(info))>>
    /\ UNCHANGED <<ret, Traversed>>

\* all children of the node on top are done: leave it
visit_leave ==
    /\ entry = "TypeInfo"
    /\ stack # <<>>
    /\ Top.next > Len(Top.node.children)
    /\ info' = leave(info, Top.node)
    /\ stack' = Pop
    /\ ret' = IF Len(stack) = 1 THEN RetVal(None) ELSE ret
    /\ UNCHANGED <<type_map, Traversed>>

\* the schemas the traversals run on: Q { f: A }, A { g(arg: arg): String }
\* implementing I, input In { v: v }, with or without a mutation root
VisitedSchemas ==
    { GraphQLSchema(mutation,
                    GraphTypes(Named("A"), Named("String"), arg, Named("String"), <<"I">>, v)) :
        mutation \in {NoType, Named("M")},
        arg \in {ListOf(Named("String")), NonNullOf(Named("In"))},
        v \in {Named("E"), ListOf(Named("In"))} }

\* 1, $v, [], [1], {v: 1}, {v: [1]}, {zz: 1}
VisitedValues ==
    { ast_IntValue("1"), ast_Variable("v"), ast_ListValue(<<>>),
      ast_ListValue(<<ast_IntValue("1")>>),
      ast_ObjectValue(<<ast_ObjectField("v", ast_IntValue("1"))>>),
      ast_ObjectValue(<<ast_ObjectField("v", ast_ListValue(<<ast_IntValue("1")>>))>>),
      ast_ObjectValue(<<ast_ObjectField("zz", ast_IntValue("1"))>>) }

\* String, In, Zzz (not a type of the schema), [String], In!, [String]!
VisitedTypes ==
    { ast_NamedType("String"), ast_NamedType("In"), ast_NamedType("Zzz"),
      ast_ListType(ast_NamedType("String")), ast_NonNullType(ast_NamedType("In")),
      ast_NonNullType(ast_ListType(ast_NamedType("String"))) }

\* no directive, @include(if: $v), @zz(if: [])
VisitedDirectives ==
    { <<>>,
      <<ast_Directive("include", <<ast_Argument("if", ast_Variable("v"))>>)>>,
      <<ast_Directive("zz", <<ast_Argument("if", ast_ListValue(<<>>))>>)>> }

\* op ($v: type = default) { f }
VisitedVariables ==
    { ast_Document(<<
          ast_OperationDefinition(op,
              <<ast_VariableDefinition(ast_Variable("v"), type, default_value)>>, <<>>,
              ast_SelectionSet(<<ast_Field("f", <<>>, <<>>, <<>>)>>)) >>) :
        op \in {"query", "mutation", "subscription"},
        type \in VisitedTypes,
        default_value \in {<<>>, <<ast_IntValue("1")>>, <<ast_ListValue(<<ast_IntValue("1")>>)>>} }

\* { f { name(arg: value) @directive } }
VisitedArguments ==
    { ast_Document(<<
          ast_OperationDefinition("query", <<>>, <<>>,
              ast_SelectionSet(<<
                  ast_Field("f", <<>>, <<>>,
                      <<ast_SelectionSet(<<ast_Field(name, arguments, directives, <<>>)>>)>>)
              >>)) >>) :
        name \in {"g", "zz", "__typename"},
        arguments \in {<<>>} \cup {<<ast_Argument(arg, value)>> :
                                      arg \in {"arg", "zz"}, value \in VisitedValues},
        directives \in VisitedDirectives }

\* { f { ... on T { g } ...F @directive } }  fragment F on T2 { g }
VisitedFragments ==
    { ast_Document(<<
          ast_OperationDefinition("query", <<>>, <<>>,
              ast_SelectionSet(<<
                  ast_Field("f", <<>>, <<>>,
                      <<ast_SelectionSet(<<
                            ast_InlineFragment(ast_NamedType(on), <<>>,
                                ast_SelectionSet(<<ast_Field("g", <<>>, <<>>, <<>>)>>)),
                            ast_FragmentSpread("F", directives) >>)>>)
              >>)),
          ast_FragmentDefinition("F", ast_NamedType(on2), <<>>,
              ast_SelectionSet(<<ast_Field("g", <<>>, <<>>, <<>>)>>)) >>) :
        on \in {"A", "I", "Zzz"},
        on2 \in {"A", "E", "Zzz"},
        directives \in VisitedDirectives }

VisitedDocuments == VisitedVariables \cup VisitedArguments \cup VisitedFragments

InitTypes ==
    /\ mode = "sync"
    /\ coroutines = FALSE
    /\ operation_name = ""
    /\ valErrors = <<>>
    /\ resolvers = << >>
    /\ errors = <<>>
    /\ calls = <<>>
    /\ first = NoRet
    /\ ret = NoRet
    /\ type_map = None
    /\ \/ /\ entry = "get_type_map"
          /\ schema \in SchemaGraphs
          /\ document = <<>>
          /\ stack = <<>>
          /\ info = None
          /\ \E n \in 1..MaxCallers : callers = [c \in 1..n |-> Caller("start", None, None)]
       \/ /\ entry = "TypeInfo"
          /\ schema \in VisitedSchemas
          /\ document \in VisitedDocuments
          /\ stack = <<>>
          /\ info = TypeInfo
          /\ callers = <<>>

NextTypes ==
    \/ get_type_map_test
    \/ get_type_map_build
    \/ get_type_map_store
    \/ get_type_map_return
    \/ visit_enter
    \/ visit_leave

SpecTypes == InitTypes /\ [][NextTypes]_vars

(***************************************************************************)
(* The validation rules of graphql/core/validation/rules.py.  A rule is a  *)
(* visitor: visit(document, rule) calls its enter_<Kind> hook on a node,   *)
(* visits the children unless the hook returned False, and calls its       *)
(* leave_<Kind> hook; the errors the hooks return are collected.  A node   *)
(* is known by its path, the indices of the children that lead to it from  *)
(* the document.  A hook gives the rule object after it, the errors it     *)
(* returned and whether it returned False.                                 *)
(***************************************************************************)
Hook(self, errs, skip) == [self |-> self, errors |-> errs, skip |-> skip]

\* a hook that returns None, or a node kind the rule has no hook for
Pass(self) == Hook(self, <<>>, FALSE)

\* GraphQLError(message, nodes), the message being about name
RuleError(msg, name, nodes) == Exc("GraphQLError", msg, nodes, Str(name))

\* an operation definition with a name
ast_NamedOperation(name, operation, variable_definitions, directives, selection_set) ==
    AstNode("OperationDefinition", name, operation,
            <<ast_Name(name)>> \o variable_definitions \o directives \o <<selection_set>>)

\* dict[key] = value
SetItem(dict, key, value) ==
    [k \in DOMAIN dict \cup {key} |-> IF k = key THEN value ELSE dict[k]]

(***************************************************************************)
(* NoUnusedFragments.  self.spread_names is the set object last put into   *)
(* spreads_within_operation or fragment_adjacencies: `current` says which, *)
(* and adding a name to spread_names adds it there.                        *)
(***************************************************************************)
NoUnusedFragments ==
    [fragment_definitions |-> <<>>, spreads_within_operation |-> <<>>,
     fragment_adjacencies |-> <<>>, current |-> <<"init">>]

\* the spreads of a fragment taken for all it reaches
DirectSpreads(adjacencies, spreads, used) == used \cup spreads

RECURSIVE reduce_spread_fragments(_, _, _)
\* reduce_spread_fragments(spreads): fragment_names_used after it
reduce_spread_fragments(adjacencies, spreads, used) ==
    IF spreads = {} THEN used
    ELSE LET fragment_name == CHOOSE name \in spreads : TRUE
             rest == spreads \ {fragment_name}
         IN  IF fragment_name \in used
             THEN reduce_spread_fragments(adjacencies, rest, used)
             ELSE reduce_spread_fragments(adjacencies, rest,
                      IF fragment_name \in DOMAIN adjacencies
                      THEN reduce_spread_fragments(adjacencies, adjacencies[fragment_name],
                                                   used \cup {fragment_name})
                      ELSE used \cup {fragment_name})

RECURSIVE fragment_names_used(_, _, _)
\* `for spreads in self.spreads_within_operation: reduce_spread_fragments(spreads)`
fragment_names_used(self, i, used) ==
    IF i > Len(self.spreads_within_operation) THEN used
    ELSE fragment_names_used(self, i + 1,
             reduce_spread_fragments(self.fragment_adjacencies,
                                     self.spreads_within_operation[i], used))

RECURSIVE unused_fragments(_, _)
\* `for fragment_definition in self.fragment_definitions
\*  if fragment_definition.name.value not in fragment_names_used`
unused_fragments(definitions, used) ==
    IF definitions = <<>> THEN <<>>
    ELSE (IF Head(definitions).name \notin used THEN <<Head(definitions)>> ELSE <<>>)
         \o unused_fragments(Tail(definitions), used)

NoUnusedFragments_enter(self, node, path) ==
    CASE node.kind = "OperationDefinition" ->
             Pass([self EXCEPT
                      !.spreads_within_operation = Append(@, {}),
                      !.current = <<"operation", Len(self.spreads_within_operation) + 1>>])
      [] node.kind = "FragmentDefinition" ->
             Pass([self EXCEPT
                      !.fragment_definitions = Append(@, [name |-> node.name, path |-> path]),
                      !.fragment_adjacencies = SetItem(@, node.name, {}),
                      !.current = <<"fragment", node.name>>])
      [] node.kind = "FragmentSpread" ->
             Pass(CASE self.current[1] = "operation" ->
                           [self EXCEPT !.spreads_within_operation[self.current[2]] =
                                            @ \cup {node.name}]
                    [] self.current[1] = "fragment" ->
                           [self EXCEPT !.fragment_adjacencies[self.current[2]] =
                                            @ \cup {node.name}]
                    [] OTHER -> self)
      [] OTHER -> Pass(self)

NoUnusedFragments_leave(self, node, path) ==
    IF node.kind = "Document"
    THEN LET used == fragment_names_used(self, 1, {})
             unused == unused_fragments(self.fragment_definitions, used)
         IN  Hook(self,
                  [i \in 1..Len(unused) |->
                      RuleError("Fragment is never used.", unused[i].name, <<unused[i].path>>)],
                  FALSE)
    ELSE Pass(self)

(***************************************************************************)
(* NoUnusedVariables.  Its three attributes are None until the first       *)
(* operation is entered and are set together: `entered` says which.        *)
(***************************************************************************)
NoUnusedVariables ==
    [entered |-> FALSE, visited_fragment_names |-> {}, variable_definitions |-> <<>>,
     variable_name_used |-> {}]

\* an operation entered with the uses of the operations before it kept
UsesKept(self) ==
    [self EXCEPT !.entered = TRUE, !.visited_fragment_names = {},
                 !.variable_definitions = <<>>]

\* enter_OperationDefinition
NoUnusedVariables_enter_OperationDefinition(self) ==
    [entered |-> TRUE, visited_fragment_names |-> {}, variable_definitions |-> <<>>,
     variable_name_used |-> {}]

RECURSIVE unused_variables(_, _)
\* `for variable_definition in self.variable_definitions
\*  if variable_definition.variable.name.value not in self.variable_name_used`
unused_variables(definitions, used) ==
    IF definitions = <<>> THEN <<>>
    ELSE (IF Head(definitions).name \notin used THEN <<Head(definitions)>> ELSE <<>>)
         \o unused_variables(Tail(definitions), used)

NoUnusedVariables_enter(self, node, path) ==
    CASE node.kind = "OperationDefinition" ->
             Pass(NoUnusedVariables_enter_OperationDefinition(self))
      [] node.kind = "VariableDefinition" ->
             Hook(IF self.entered
                  THEN [self EXCEPT !.variable_definitions =
                                        Append(@, [name |-> node.children[1].name,
                                                   path |-> path])]
                  ELSE self,
                  <<>>, TRUE)
      [] node.kind = "Variable" ->
             Pass(IF self.entered
                  THEN [self EXCEPT !.variable_name_used = @ \cup {node.name}]
                  ELSE self)
      [] node.kind = "FragmentSpread" ->
             IF self.entered
             THEN IF node.name \in self.visited_fragment_names
                  THEN Hook(self, <<>>, TRUE)
                  ELSE Pass([self EXCEPT !.visited_fragment_names = @ \cup {node.name}])
             ELSE Pass(self)
      [] OTHER -> Pass(self)

NoUnusedVariables_leave(self, node, path) ==
    IF node.kind = "OperationDefinition"
    THEN LET unused == unused_variables(self.variable_definitions, self.variable_name_used)
         IN  Hook(self,
                  [i \in 1..Len(unused) |->
                      RuleError("Variable is never used.", unused[i].name, <<unused[i].path>>)],
                  FALSE)
    ELSE Pass(self)

(***************************************************************************)
(* UniqueArgumentNames: known_arg_names gives, for an argument name, the   *)
(* Name node of the argument that brought it.                              *)
(***************************************************************************)
UniqueArgumentNames == [known_arg_names |-> <<>>]

\* a directive entered with the names known so far kept
NamesKept(self) == self

\* enter_Directive
UniqueArgumentNames_enter_Directive(self) == [known_arg_names |-> <<>>]

UniqueArgumentNames_enter(self, node, path) ==
    CASE node.kind = "Field" -> Pass([known_arg_names |-> <<>>])
      [] node.kind = "Directive" -> Pass(UniqueArgumentNames_enter_Directive(self))
      [] node.kind = "Argument" ->
             LET arg_name == node.name
                 \* node.name, the first child of the argument
                 name_node == Append(path, 1)
             IN  IF arg_name \in DOMAIN self.known_arg_names
                 THEN Hook(self,
                           <<RuleError("There can only be one argument named.", arg_name,
                                       <<self.known_arg_names[arg_name], name_node>>)>>,
                           FALSE)
                 ELSE Pass([self EXCEPT !.known_arg_names = SetItem(@, arg_name, name_node)])
      [] OTHER -> Pass(self)

(***************************************************************************)
(* UniqueOperationNames: known_operation_names gives, for an operation     *)
(* name, the Name node of the operation that brought it.                   *)
(***************************************************************************)
UniqueOperationNames == [known_operation_names |-> <<>>]

\* an operation taken for a named one whether it has a name or not
AlwaysNamed(node) == TRUE

\* operation_name = node.name is a Name node, not None
HasName(node) == node.name # ""

UniqueOperationNames_enter(self, node, path) ==
    IF node.kind = "OperationDefinition" /\ HasName(node)
    THEN LET \* node.name, the first child of a named operation
             name_node == Append(path, 1)
         IN  IF node.name \in DOMAIN self.known_operation_names
             THEN Hook(self,
                       <<RuleError("There can only be one operation named.", node.name,
                                   <<self.known_operation_names[node.name],
                                     name_node>>)>>,
                       FALSE)
             ELSE Pass([self EXCEPT !.known_operation_names =
                                        SetItem(@, node.name, name_node)])
    ELSE Pass(self)

(***************************************************************************)
(* LoneAnonymousOperation                                                  *)
(***************************************************************************)
LoneAnonymousOperation == [operation_count |-> 0]

\* the definitions of the document counted, whatever they define
count_definitions(node) == Len(node.children)

\* sum(1 for definition in node.definitions
\*     if isinstance(definition, ast.OperationDefinition))
count_operations(node) ==
    Cardinality({i \in 1..Len(node.children) :
                    node.children[i].kind = "OperationDefinition"})

LoneAnonymousOperation_enter(self, node, path) ==
    CASE node.kind = "Document" -> Pass([operation_count |-> count_operations(node)])
      [] node.kind = "OperationDefinition" ->
             IF node.name = "" /\ self.operation_count > 1
             THEN Hook(self,
                       <<RuleError("This anonymous operation must be the only defined operation.",
                                   "", <<path>>)>>,
                       FALSE)
             ELSE Pass(self)
      [] OTHER -> Pass(self)

(***************************************************************************)
(* visit(document, rule).  The validator that drives the rules is asked by *)
(* a rule's visit_spread_fragments to visit, when the rule has entered a   *)
(* fragment spread, the fragment it names in its place, and then not to    *)
(* visit the fragment definitions of the document themselves; `mode` says  *)
(* whether the traversal does so ("visit_spread_fragments") or visits the  *)
(* document as it stands ("visit").                                        *)
(***************************************************************************)
Rules == {"NoUnusedFragments", "NoUnusedVariables", "UniqueArgumentNames",
          "UniqueOperationNames", "LoneAnonymousOperation"}

\* the rules with visit_spread_fragments = True
visit_spread_fragments(rule) == rule \in {"NoUnusedVariables"}

VisitModes(rule) ==
    IF visit_spread_fragments(rule) THEN {"visit", "visit_spread_fragments"} ELSE {"visit"}

\* context.get_fragment(name): the definitions of that name
get_fragment(doc, name) ==
    LET found == {i \in 1..Len(doc.children) :
                     /\ doc.children[i].kind = "FragmentDefinition"
                     /\ doc.children[i].name = name}
    IN  IF found = {} THEN <<>>
        ELSE LET i == CHOOSE j \in found : \A k \in found : j <= k
             IN  <<[node |-> doc.children[i], path |-> <<i>>]>>

\* the rule object a rule's __init__ makes
RuleInit(rule) ==
    CASE rule = "NoUnusedFragments" -> NoUnusedFragments
      [] rule = "NoUnusedVariables" -> NoUnusedVariables
      [] rule = "UniqueArgumentNames" -> UniqueArgumentNames
      [] rule = "UniqueOperationNames" -> UniqueOperationNames
      [] rule = "LoneAnonymousOperation" -> LoneAnonymousOperation

enter_hook(rule, self, node, path) ==
    CASE rule = "NoUnusedFragments" -> NoUnusedFragments_enter(self, node, path)
      [] rule = "NoUnusedVariables" -> NoUnusedVariables_enter(self, node, path)
      [] rule = "UniqueArgumentNames" -> UniqueArgumentNames_enter(self, node, path)
      [] rule = "UniqueOperationNames" -> UniqueOperationNames_enter(self, node, path)
      [] rule = "LoneAnonymousOperation" -> LoneAnonymousOperation_enter(self, node, path)

leave_hook(rule, self, node, path) ==
    CASE rule = "NoUnusedFragments" -> NoUnusedFragments_leave(self, node, path)
      [] rule = "NoUnusedVariables" -> NoUnusedVariables_leave(self, node, path)
      [] rule = "UniqueArgumentNames" -> Pass(self)
      [] rule = "UniqueOperationNames" -> Pass(self)
      [] rule = "LoneAnonymousOperation" -> Pass(self)

\* the children of a node with their paths
Kids(node, path) ==
    [i \in 1..Len(node.children) |-> [node |-> node.children[i], path |-> Append(path, i)]]

\* a node entered and not yet left, and its next child
RuleFrame(node, path, kids, next) ==
    [node |-> node, path |-> path, kids |-> kids, next |-> next]

\* what a step of the visit leaves alone
Visited == <<mode, entry, schema, document, operation_name, valErrors, coroutines,
             resolvers, calls, first, type_map, callers>>

\* enter the document, or the next child of the node on top
rule_enter ==
    /\ entry \in Rules
    /\ IF stack = <<>> THEN ret = NoRet ELSE Top.next <= Len(Top.kids)
    /\ LET kid == IF stack = <<>> THEN [node |-> document, path |-> <<>>]
                  ELSE Top.kids[Top.next]
           spreading == mode = "visit_spread_fragments"
           \* a fragment definition of the document, not visited for itself
           skipped == /\ spreading /\ stack # <<>> /\ Top.node.kind = "Document"
                      /\ kid.node.kind = "FragmentDefinition"
           hook == IF skipped THEN Hook(info, <<>>, TRUE)
                   ELSE enter_hook(entry, info, kid.node, kid.path)
           \* the fragment a spread names is visited first, in its place
           kids == (IF spreading /\ kid.node.kind = "FragmentSpread"
                    THEN get_fragment(document, kid.node.name) ELSE <<>>)
                   \o Kids(kid.node, kid.path)
       IN  /\ info' = hook.self
           /\ errors' = errors \o hook.errors
           /\ stack' = (IF stack = <<>> THEN <<>>
                        ELSE Append(Pop, [Top EXCEPT !.next = @ + 1]))
                       \o (IF hook.skip THEN <<>>
                           ELSE <<RuleFrame(kid.node, kid.path, kids, 1)>>)
    /\ UNCHANGED <<ret, Visited>>

\* the children of the node on top are done: leave it
rule_leave ==
    /\ entry \in Rules
    /\ stack # <<>>
    /\ Top.next > Len(Top.kids)
    /\ LET hook == leave_hook(entry, info, Top.node, Top.path)
       IN  /\ info' = hook.self
           /\ errors' = errors \o hook.errors
    /\ stack' = Pop
    /\ ret' = IF Len(stack) = 1 THEN RetVal(None) ELSE ret
    /\ UNCHANGED Visited

\* graphql() with the errors of the visit as validation_errors: it returns
\* them, or goes on to execute the document
graphql_validated ==
    /\ entry \in Rules
    /\ stack = <<>>
    /\ ret = RetVal(None)
    /\ ret' = IF Invalid(errors) THEN RetVal(ExecutionResult(None, List(errors)))
              ELSE RetVal(Str("execute"))
    /\ UNCHANGED <<stack, info, errors, Visited>>

\* the documents NoUnusedFragments runs on: operations with one of these
\* selections and the fragments A, B and C, each with one of those that start
\* with a field or a spread
SpreadSelections ==
    { <<ast_Field("x", <<>>, <<>>, <<>>)>>,
      <<ast_FragmentSpread("A", <<>>)>>,
      <<ast_FragmentSpread("B", <<>>)>>,
      <<ast_FragmentSpread("C", <<>>), ast_FragmentSpread("Z", <<>>)>>,
      <<ast_Field("x", <<>>, <<>>,
                  <<ast_SelectionSet(<<ast_FragmentSpread("B", <<>>),
                                       ast_FragmentSpread("C", <<>>)>>)>>)>>,
      <<ast_InlineFragment(ast_NamedType("Obj"), <<>>,
                           ast_SelectionSet(<<ast_FragmentSpread("A", <<>>)>>))>> }

SpreadOperations ==
    {<<>>}
    \cup {<<ast_OperationDefinition("query", <<>>, <<>>, ast_SelectionSet(selections))>> :
             selections \in SpreadSelections}
    \cup {<<ast_NamedOperation("P", "query", <<>>, <<>>,
                               ast_SelectionSet(<<ast_FragmentSpread("A", <<>>)>>)),
            ast_NamedOperation("R", "mutation", <<>>, <<>>, ast_SelectionSet(selections))>> :
             selections \in SpreadSelections}

SpreadFragments ==
    { [i \in 1..3 |->
          ast_FragmentDefinition(<<"A", "B", "C">>[i], ast_NamedType("Obj"), <<>>,
                                 ast_SelectionSet(body[i]))] :
        body \in [1..3 -> {selections \in SpreadSelections :
                              \A i \in 1..Len(selections) :
                                  selections[i].children[1].kind = "Name"}] }

FragmentDocuments ==
    { ast_Document(IF first_operations THEN operations \o fragments
                   ELSE fragments \o operations) :
        operations \in SpreadOperations, fragments \in SpreadFragments,
        first_operations \in BOOLEAN }

\* the documents NoUnusedVariables runs on: operations that define $a, $b or
\* none and use them in an argument, in a list, in a directive or through the
\* fragment F, which uses one, none, or spreads itself
UsingSelections ==
    { <<ast_Field("x", <<>>, <<>>, <<>>)>>,
      <<ast_Field("x", <<ast_Argument("arg", ast_Variable("a"))>>, <<>>, <<>>)>>,
      <<ast_Field("x", <<ast_Argument("arg", ast_ListValue(<<ast_Variable("b")>>))>>,
                  <<>>, <<>>)>>,
      <<ast_Field("x", <<>>,
                  <<ast_Directive("include", <<ast_Argument("if", ast_Variable("b"))>>)>>,
                  <<>>)>>,
      <<ast_FragmentSpread("F", <<>>)>>,
      <<ast_Field("x", <<ast_Argument("arg", ast_Variable("a"))>>, <<>>, <<>>),
        ast_FragmentSpread("F", <<>>)>> }

DefinedVariables ==
    { <<>>,
      <<ast_VariableDefinition(ast_Variable("a"), ast_NamedType("String"), <<>>)>>,
      <<ast_VariableDefinition(ast_Variable("a"), ast_NamedType("String"), <<>>),
        ast_VariableDefinition(ast_Variable("b"), ast_NamedType("String"),
                               <<ast_IntValue("1")>>)>> }

UsingOperations ==
    { ast_OperationDefinition("query", variable_definitions, <<>>,
                              ast_SelectionSet(selections)) :
        variable_definitions \in DefinedVariables, selections \in UsingSelections }

UsingFragments ==
    { ast_FragmentDefinition("F", ast_NamedType("Obj"), <<>>, ast_SelectionSet(selections)) :
        selections \in { <<ast_Field("x", <<>>, <<>>, <<>>)>>,
                         <<ast_Field("x", <<ast_Argument("arg", ast_Variable("a"))>>,
                                     <<>>, <<>>)>>,
                         <<ast_Field("x", <<ast_Argument("arg", ast_Variable("b"))>>,
                                     <<>>, <<>>),
                           ast_FragmentSpread("F", <<>>)>> } }

VariableUseDocuments ==
    { ast_Document(definitions) :
        definitions \in
            {<<operation, fragment>> :
                operation \in UsingOperations, fragment \in UsingFragments}
            \cup {<<fragment, operation>> :
                     operation \in UsingOperations, fragment \in UsingFragments}
            \cup {<<first_operation, fragment, operation>> :
                     first_operation \in UsingOperations, fragment \in UsingFragments,
                     operation \in {o \in UsingOperations : Len(o.children) = 3}} }

\* the documents UniqueArgumentNames runs on: fields and directives with
\* these arguments
ArgumentLists ==
    { [i \in 1..Len(names) |-> ast_Argument(names[i], ast_IntValue("1"))] :
        names \in {<<>>, <<"a">>, <<"a", "a">>, <<"a", "b">>, <<"a", "b", "a">>,
                   <<"a", "a", "a">>} }

ArgumentDocuments ==
    { ast_Document(<<ast_OperationDefinition("query", <<>>, <<>>,
                                             ast_SelectionSet(selections))>>) :
        selections \in
            \* f(..) @d(..) { g(..) }
            { <<ast_Field("f", on_f, <<ast_Directive("d", on_d)>>,
                          <<ast_SelectionSet(<<ast_Field("g", on_g, <<>>, <<>>)>>)>>)>> :
                on_f \in ArgumentLists, on_d \in ArgumentLists, on_g \in ArgumentLists }
            \* f(..) @d(..) @e(..)
            \cup { <<ast_Field("f", on_f, <<ast_Directive("d", on_d), ast_Directive("e", on_e)>>,
                               <<>>)>> :
                     on_f \in {a \in ArgumentLists : Len(a) <= 1},
                     on_d \in ArgumentLists, on_e \in ArgumentLists }
            \* f(..) h(..)
            \cup { <<ast_Field("f", on_f, <<>>, <<>>), ast_Field("h", on_h, <<>>, <<>>)>> :
                     on_f \in ArgumentLists, on_h \in ArgumentLists } }

\* the documents the rules on operations run on: up to three definitions, each
\* an anonymous query, an operation named P or R, or a fragment named P
OperationDocuments ==
    LET body == ast_SelectionSet(<<ast_Field("x", <<>>, <<>>, <<>>)>>)
        definitions ==
            { ast_OperationDefinition("query", <<>>, <<>>, body),
              ast_NamedOperation("P", "query", <<>>, <<>>, body),
              ast_NamedOperation("R", "mutation", <<>>, <<>>, body),
              ast_FragmentDefinition("P", ast_NamedType("Obj"), <<>>, body) }
    IN  {ast_Document(list) : list \in UNION {[1..n -> definitions] : n \in 1..3}}

InitRules ==
    /\ coroutines = FALSE
    /\ operation_name = ""
    /\ valErrors = <<>>
    /\ resolvers = << >>
    /\ errors = <<>>
    /\ calls = <<>>
    /\ first = NoRet
    /\ ret = NoRet
    /\ type_map = None
    /\ callers = <<>>
    /\ schema = [query |-> "Query", mutation |-> "none"]
    /\ stack = <<>>
    /\ entry \in Rules
    /\ mode \in VisitModes(entry)
    /\ info = RuleInit(entry)
    /\ \/ entry = "NoUnusedFragments" /\ document \in FragmentDocuments
       \/ entry = "NoUnusedVariables" /\ document \in VariableUseDocuments
       \/ entry = "UniqueArgumentNames" /\ document \in ArgumentDocuments
       \/ /\ entry \in {"UniqueOperationNames", "LoneAnonymousOperation"}
          /\ document \in OperationDocuments

NextRules ==
    \/ rule_enter
    \/ rule_leave
    \/ graphql_validated

SpecRules == InitRules /\ [][NextRules]_vars

Done == stack = <<>>

(***************************************************************************)
(* What the claims speak about.                                            *)
(***************************************************************************)
\* the entry function has given its caller a result
Returned == Done /\ ret.k = "val"

\* the operation run and its root fields as collect_fields gives them
TheOperation ==
    LET ctx == ExecutionContext(document, operation_name)
    IN  IF ctx.ok THEN ctx.operation ELSE Operations(document)[1]
TheRootType == IF TheOperation.operation = "query" THEN schema.query ELSE schema.mutation
TheFragments == Fragments(document)
RootCollected ==
    collect_fields(TheFragments, TheRootType, TheOperation.selection_set, <<>>, {}).fields

HasKey(dict, key) == \E i \in 1..Len(dict.entries) : dict.entries[i].key = key
Get(dict, key) ==
    dict.entries[CHOOSE i \in 1..Len(dict.entries) : dict.entries[i].key = key].val

\* the resolver of field name was called on the object source, and did out
Called(source, name) == <<source.id, name>> \in DOMAIN resolvers
Did(source, name) ==
    IF Called(source, name) THEN resolvers[<<source.id, name>>] ELSE Out("ret", Undefined)

\* this run invoked the resolver of the root field name
Invoked(name) == \E i \in 1..Len(calls) : calls[i].source = Root.id /\ calls[i].name = name

\* the request reached execute_operation: no validation error stopped graphql(),
\* the operation was found and the schema has its root type
Executed ==
    /\ valErrors = <<>>
    /\ ExecutionContext(document, operation_name).ok
    /\ get_operation_root_type(schema, TheOperation).ok

(***************************************************************************)
(* The response the GraphQL rules give when every resolver returns: a      *)
(* value is completed against its type, and a nil under NonNull fails the  *)
(* enclosing fields up to the nearest nullable one, which becomes nil.     *)
(***************************************************************************)
Fail == [t |-> "fail"]
Unknown == [t |-> "unknown"]

Caught(type, completed) ==
    IF completed = Fail /\ TypeDef(type).kind # "NonNull" THEN None ELSE completed

RECURSIVE Expected(_, _, _)
RECURSIVE ExpectedFields(_, _, _, _, _)
Expected(type, asts, value) ==
    LET kind == TypeDef(type).kind
        of_type == TypeDef(type).of_type
    IN  IF value = Undefined THEN Unknown
        ELSE IF kind = "NonNull"
        THEN LET completed == Expected(of_type, asts, value)
             IN  IF completed = None THEN Fail ELSE completed
        ELSE IF value = None THEN None
        ELSE IF kind = "List"
        THEN LET items == [i \in 1..Len(value.items) |->
                              Caught(of_type, Expected(of_type, asts, value.items[i]))]
             IN  IF \E i \in 1..Len(items) : items[i] = Fail THEN Fail ELSE List(items)
        ELSE IF kind = "Scalar" THEN serialize(type, value)
        ELSE ExpectedFields(type, value, CollectSubfields(TheFragments, type, asts), 1, <<>>)

ExpectedFields(parent_type, source, fields, i, entries) ==
    IF i > Len(fields) THEN Dict(entries)
    ELSE LET name == fields[i].asts[1].name
             type == get_field_def(schema, parent_type, name).type
             completed == Caught(type, Expected(type, fields[i].asts, Did(source, name).v))
         IN  IF completed = Fail THEN Fail
             ELSE ExpectedFields(parent_type, source, fields, i + 1,
                      Append(entries, [key |-> fields[i].key, val |-> completed]))

ExpectedData == ExpectedFields(TheRootType, Root, RootCollected, 1, <<>>)

\* the type of the field a key of resolvers stands for
KeyType(k) ==
    get_field_def(schema, IF k[1] = Root.id THEN TheRootType ELSE "Obj", k[2]).type

(***************************************************************************)
(* C1                                                                      *)
(***************************************************************************)
\* C1: in synchronous execution, when the resolver of a nullable field raises,
\* execute still returns a result: the field's response key is nil in data,
\* every other field of the selection set is resolved and keeps its value, and
\* errors holds exactly one located error with the exception's message and the
\* field's AST node as location.  Stated for the root selection set, the
\* other fields having resolvers that return a value.
C1_ResolverErrorCaptured ==
    \A j \in 1..Len(RootCollected) :
        LET f == RootCollected[j]
            name == f.asts[1].name
            type == get_field_def(schema, TheRootType, name).type
        IN  ( /\ mode = "sync" /\ Done /\ Executed
              /\ type # "none" /\ TypeDef(type).kind # "NonNull"
              /\ Invoked(name) /\ Did(Root, name).k = "raise"
              /\ Validates(schema, TheOperation.selection_set, TheRootType) )
            => /\ Returned
               /\ ret.v.data.t = "dict"
               /\ HasKey(ret.v.data, f.key) /\ Get(ret.v.data, f.key) = None
               /\ \A i \in 1..Len(RootCollected) :
                      i # j => /\ HasKey(ret.v.data, RootCollected[i].key)
                               /\ Get(ret.v.data, RootCollected[i].key) # None
               /\ ret.v.errors =
                      List(<< [message |-> Boom.msg, locations |-> <<f.asts[1].id>>] >>)

(***************************************************************************)
(* C2                                                                      *)
(***************************************************************************)
\* the keys of the resolvers that returned nil for a field of a NonNull type
NonNullNils ==
    {k \in DOMAIN resolvers :
        /\ KeyType(k) # "none"
        /\ TypeDef(KeyType(k)).kind = "NonNull"
        /\ resolvers[k] = Out("ret", None)}

\* the resolver calls of this run that hit such a key
FailingCalls ==
    {i \in 1..Len(calls) : <<calls[i].source, calls[i].name>> \in NonNullNils}

\* the run's only failure is one nil for a NonNull field below the root
OnlyFailureIsOneNonNullNil ==
    /\ Executed
    /\ Validates(schema, TheOperation.selection_set, TheRootType)
    /\ \A k \in DOMAIN resolvers :
           \/ IsPlain(resolvers[k])
           \/ k \in NonNullNils /\ k[1] # Root.id
    /\ Cardinality(FailingCalls) = 1

\* C2: when a field of NonNull type completes to nil because its resolver
\* returned nil, and it has a nullable enclosing field or list item, exactly the
\* nearest such field or item becomes nil in data, everything outside it keeps
\* its value, and errors holds exactly one error, 'Cannot return null for
\* non-nullable type.'
C2_NonNullNilBubbles ==
    (Done /\ OnlyFailureIsOneNonNullNil)
    => /\ Returned
       /\ ret.v.data = ExpectedData
       /\ ret.v.errors.t = "list"
       /\ Len(ret.v.errors.items) = 1
       /\ ret.v.errors.items[1].message = "Cannot return null for non-nullable type."
       /\ \E i \in FailingCalls : ret.v.errors.items[1].locations[1] = calls[i].id

\* a finished run whose only failure was such a nil, with fields beside the one
\* made nil
C2_Witness ==
    /\ Done /\ OnlyFailureIsOneNonNullNil
    /\ ret.v.data.t = "dict"
    /\ Len(ret.v.data.entries) = 2
    /\ \E i \in 1..2 : ret.v.data.entries[i].val # None

(***************************************************************************)
(* C3                                                                      *)
(***************************************************************************)
\* C3: when a root field of NonNull type fails (its resolver raises or returns
\* nil), the failure does not leave execute as an exception: execute returns a
\* result whose data is nil and whose errors contains the error.
C3_RootNonNullFailureReported ==
    ( /\ Done /\ Executed
      /\ Invoked("n")
      /\ Did(Root, "n") \in {Out("raise", None), Out("ret", None)} )
    => /\ Returned
       /\ ret.v.data = None
       /\ ret.v.errors.t = "list"
       /\ \E i \in 1..Len(ret.v.errors.items) :
              ret.v.errors.items[i].message =
                  IF Did(Root, "n").k = "raise" THEN Boom.msg
                  ELSE "Cannot return null for non-nullable type."

(***************************************************************************)
(* C4                                                                      *)
(***************************************************************************)
\* C4: a completed value that is not nil is never turned into nil: the empty
\* string, an empty list and an empty map stay what they are in data, and a
\* root selection set that yields no field gives the empty map.
C4_FalsyValuesKept ==
    (Done /\ Executed /\ Returned)
    => /\ RootCollected = <<>> => ret.v.data = Dict(<<>>)
       /\ ret.v.data.t = "dict" =>
            \A j \in 1..Len(RootCollected) :
                LET f == RootCollected[j]
                    name == f.asts[1].name
                    out == Did(Root, name)
                IN  (Invoked(name) /\ out.k = "ret" /\ HasKey(ret.v.data, f.key))
                    => /\ out.v = Str("") => Get(ret.v.data, f.key) = Str("")
                       /\ out.v = List(<<>>) => Get(ret.v.data, f.key) = List(<<>>)
                       /\ (out.v.t = "obj" /\ CollectSubfields(TheFragments, "Obj", f.asts) = <<>>)
                              => Get(ret.v.data, f.key) = Dict(<<>>)

(***************************************************************************)
(* C5                                                                      *)
(***************************************************************************)
\* C5: a field whose name has no definition on the parent type is left out of
\* the result: its key is absent from data, no resolver is called for it, and
\* the other fields of the selection set are still resolved.  Stated for the
\* root selection set of a run in which every resolver called returns a value.
C5_UndefinedFieldOmitted ==
    ( /\ Done /\ Executed
      /\ \E j \in 1..Len(RootCollected) : RootCollected[j].key = "zz"
      /\ AllPlain )
    => /\ Returned
       /\ ret.v.data.t = "dict"
       /\ ~ HasKey(ret.v.data, "zz")
       /\ \A i \in 1..Len(calls) : calls[i].name # "zz"
       /\ \A j \in 1..Len(RootCollected) :
              RootCollected[j].key # "zz" => HasKey(ret.v.data, RootCollected[j].key)

(***************************************************************************)
(* C6                                                                      *)
(***************************************************************************)
\* the fields collect_fields gave the selection set the frame at stack position
\* i runs: the operation's for the call made by execute, the subfields of the
\* completed field otherwise
CollectedFor(i) ==
    IF stack[i - 1].fn = "execute" THEN RootCollected
    ELSE CollectSubfields(TheFragments, stack[i - 1].type, stack[i - 1].asts)

\* the resolver calls made so far for the fields of CollectedFor(i) on the
\* frame's source, by the ids of the fields' first nodes
CallsFor(i) ==
    LET fields == CollectedFor(i)
        ids == {fields[j].asts[1].id : j \in 1..Len(fields)}
        mine == SelectSeq(calls, LAMBDA c :
                    c.source = stack[i].source.id /\ c.id \in ids)
    IN  [j \in 1..Len(mine) |-> mine[j].id]

FirstIds(fields, n) == [j \in 1..n |-> fields[j].asts[1].id]

C7_SyncAsyncAgree ==
    (mode = "async" /\ Done /\ first.k # "none") => ret = first

(***************************************************************************)
(* C8                                                                      *)
(***************************************************************************)
\* C8: in asyncio mode, for a field whose resolver is a coroutine function
\* returning v, execute does not produce its result before the resolver has
\* finished, and the result has data[key] = serialize(v) and no errors.  Stated
\* for a root selection set of that one field, of type String.
C8_CoroutineResolverAwaited ==
    /\ (\E i \in 1..Len(stack) : stack[i].pc = "await") => ~ Done /\ ret.k = "none"
    /\ ( /\ mode = "async" /\ coroutines /\ Done /\ Executed
         /\ Len(RootCollected) = 1
         /\ RootCollected[1].asts[1].name = "a"
         /\ Invoked("a")
         /\ Did(Root, "a").k = "ret" /\ Did(Root, "a").v # None )
       => /\ Returned
          /\ ret.v.data.t = "dict"
          /\ HasKey(ret.v.data, RootCollected[1].key)
          /\ Get(ret.v.data, RootCollected[1].key) = serialize("String", Did(Root, "a").v)
          /\ ret.v.errors = None

(***************************************************************************)
(* C9                                                                      *)
(***************************************************************************)
\* C9: graphql() validates before it executes: when validation reports errors
\* no resolver is invoked and the result is data nil with exactly the
\* validation errors; otherwise the result is what execute gives.
C9_ValidationGate ==
    [][ graphql =>
          IF valErrors # <<>>
          THEN /\ stack' = <<>>
               /\ ret' = RetVal(ExecutionResult(None, List(valErrors)))
               /\ calls' = <<>>
          ELSE \/ /\ Top.pc = "start"
                  /\ Len(stack') = Len(stack) + 1
                  /\ stack'[Len(stack')].fn = "execute"
               \/ /\ Top.pc = "wait"
                  /\ stack' = Pop
                  /\ ret' = ret ]_vars

\* graphql() has answered an invalid request
C9_Witness ==
    /\ entry = "graphql" /\ Done
    /\ Len(valErrors) = 2
    /\ ret.v.errors = List(valErrors)

(***************************************************************************)
(* C10                                                                     *)
(***************************************************************************)
\* the errors recorded for the request: those of validation, or ctx.errors
Recorded == IF valErrors # <<>> THEN valErrors ELSE errors

\* C10 as stated: the errors of an ExecutionResult is nil or a non-empty list,
\* nil exactly when no error was recorded for the request, and otherwise holds
\* one formatted entry per recorded error.
C10_EveryEntryFormatted ==
    Returned
    => /\ \/ ret.v.errors = None
          \/ ret.v.errors.t = "list" /\ ret.v.errors.items # <<>>
       /\ ret.v.errors = None <=> Recorded = <<>>
       /\ ret.v.errors # None
            => /\ Len(ret.v.errors.items) = Len(Recorded)
               /\ \A i \in 1..Len(Recorded) :
                      ret.v.errors.items[i] = format_error(Recorded[i])

\* C10, amended: the errors of an ExecutionResult is nil or a non-empty list,
\* nil exactly when no error was recorded for the request, and otherwise holds
\* one entry per recorded error: the formatted error for an error recorded
\* during execution, the validation error as validate returned it when
\* graphql() answers with the validation errors.
C10_ErrorsNilOrNonEmpty ==
    Returned
    => /\ \/ ret.v.errors = None
          \/ ret.v.errors.t = "list" /\ ret.v.errors.items # <<>>
       /\ ret.v.errors = None <=> Recorded = <<>>
       /\ ret.v.errors # None
            => /\ Len(ret.v.errors.items) = Len(Recorded)
               /\ \A i \in 1..Len(Recorded) :
                      ret.v.errors.items[i] =
                          IF valErrors # <<>> THEN valErrors[i]
                          ELSE format_error(errors[i])

\* execute has returned a result with two recorded errors
C10_Witness ==
    /\ Returned /\ valErrors = <<>>
    /\ Len(errors) = 2
    /\ Len(ret.v.errors.items) = 2

(***************************************************************************)
(* Claims on collect_fields, read off its finished calls.                  *)
(***************************************************************************)
\* a call of collect_fields has returned: Top holds its arguments, ret.v its
\* fields and visited names
CollectDone ==
    stack # <<>> /\ Top.fn = "collect_fields" /\ Top.pc = "done" /\ ret.k = "val"

\* the ids of the field nodes collected into fields
CollectedIds(fields) ==
    UNION { {fields[i].asts[k].id : k \in 1..Len(fields[i].asts)} : i \in 1..Len(fields) }

\* the node with this id lies in the definition or selection numbered n
Under(id, n) == id[1] = n

(***************************************************************************)
(* C11                                                                     *)
(***************************************************************************)
\* the rule of the claim: the condition names the current object type itself,
\* or an interface or union the current type is a possible type of
ConditionHolds(type_condition, type_) ==
    \/ type_condition = type_
    \/ /\ type_condition \in TypeMap
       /\ TypeDef(type_condition).kind \in {"Interface", "Union"}
       /\ is_possible_type(type_condition, type_)

\* C11: does_fragment_condition_match is true exactly when the fragment's type
\* condition names the current object type or an interface or union it is a
\* possible type of, and a fragment (inline or named) whose condition does not
\* hold contributes no field to the collection.
C11_FragmentConditionMatch ==
    CollectDone =>
        /\ \A j \in 1..Len(Top.asts) :
               Top.asts[j].kind = "InlineFragment" =>
                   /\ does_fragment_condition_match(Top.asts[j], Top.type)
                          <=> ConditionHolds(Top.asts[j].type_condition, Top.type)
                   /\ ~ ConditionHolds(Top.asts[j].type_condition, Top.type)
                          => \A id \in CollectedIds(ret.v.fields) : ~ Under(id, j)
        /\ \A n \in 1..Len(document) :
               ~ ConditionHolds(document[n].type_condition, Top.type)
                   => \A id \in CollectedIds(ret.v.fields) : ~ Under(id, document[n].id[1])
(***************************************************************************)
(* C12, C13                                                                *)
(***************************************************************************)
\* the node carries the directive
Carries(node, directive) ==
    \E i \in 1..Len(node.directives) : node.directives[i] = directive

\* the selection set without its node at place j
Without(selections, j) ==
    [i \in 1..(Len(selections) - 1) |-> IF i < j THEN selections[i] ELSE selections[i + 1]]

\* C12: a field is collected only if it carries neither @skip(if: true) nor an
\* @include whose if is not true, whatever else it carries: in particular
\* @skip(if: false) @include(if: false) omits it; a field without directive is
\* collected.
C12_FieldDirectives ==
    CollectDone =>
        \A j \in 1..Len(Top.asts) :
            LET node == Top.asts[j]
            IN  node.kind = "Field" =>
                    /\ (Carries(node, Skip(TRUE)) \/ Carries(node, Include(FALSE)))
                           => node.id \notin CollectedIds(ret.v.fields)
                    /\ node.directives = <<>> => node.id \in CollectedIds(ret.v.fields)

\* C13: a field, inline fragment or fragment spread carrying @skip(if: true) is
\* excluded whatever @include says and whichever is written first: nothing of
\* it is collected, and the collection is what it is without the node.
C13_SkipWins ==
    CollectDone =>
        \A j \in 1..Len(Top.asts) :
            LET node == Top.asts[j]
            IN  Carries(node, Skip(TRUE)) =>
                    /\ \A id \in CollectedIds(ret.v.fields) : ~ Under(id, j)
                    /\ ret.v = collect_fields(Fragments(document), Top.type,
                                              Without(Top.asts, j), <<>>, {})

C13_Witness ==
    /\ CollectDone
    /\ Len(Top.asts) = 2
    /\ Top.asts[1].kind = "InlineFragment"
    /\ Top.asts[1].directives = <<Include(TRUE), Skip(TRUE)>>
    /\ Top.asts[2].kind = "FragmentSpread"
    /\ Top.asts[2].directives = <<Skip(TRUE), Include(TRUE)>>
    /\ Top.type = "Obj"
    /\ ret.v = Collected(<<>>, {})
(***************************************************************************)
(* C14                                                                     *)
(***************************************************************************)
Visit(nodes, visited) == [nodes |-> nodes, visited |-> visited]

RECURSIVE Appearing(_, _, _, _)
\* the field nodes a collection for type includes, in their order of
\* appearance: the selections are read from left to right, an included
\* fragment's selections in place of the fragment, a named fragment's at its
\* first included spread only
Appearing(fragments, type, selections, sofar) ==
    IF selections = <<>> THEN sofar
    ELSE LET node == Head(selections)
             rest == Tail(selections)
         IN  IF ~ should_include_node(node.directives)
             THEN Appearing(fragments, type, rest, sofar)
             ELSE IF node.kind = "Field"
             THEN Appearing(fragments, type, rest,
                            Visit(Append(sofar.nodes, node), sofar.visited))
             ELSE IF node.kind = "InlineFragment"
             THEN Appearing(fragments, type, rest,
                      IF does_fragment_condition_match(node, type)
                      THEN Appearing(fragments, type, node.selection_set, sofar)
                      ELSE sofar)
             ELSE IF node.name \in sofar.visited
             THEN Appearing(fragments, type, rest, sofar)
             ELSE LET fragment == FragmentNamed(fragments, node.name)
                      seen == Visit(sofar.nodes, sofar.visited \cup {node.name})
                  IN  Appearing(fragments, type, rest,
                          IF /\ should_include_node(fragment.directives)
                             /\ does_fragment_condition_match(fragment, type)
                          THEN Appearing(fragments, type, fragment.selection_set, seen)
                          ELSE seen)

\* the response key of a field node: its alias when it has one, else its name
ResponseKey(node) == IF node.alias = "" THEN node.name ELSE node.alias

\* the nodes of the sequence whose response key is key, in order
RECURSIVE Keyed(_, _)
Keyed(nodes, key) ==
    IF nodes = <<>> THEN <<>>
    ELSE IF ResponseKey(Head(nodes)) = key
    THEN <<Head(nodes)>> \o Keyed(Tail(nodes), key)
    ELSE Keyed(Tail(nodes), key)

\* the place of the first node with this response key
FirstPlace(nodes, key) ==
    CHOOSE i \in 1..Len(nodes) :
        /\ ResponseKey(nodes[i]) = key
        /\ \A j \in 1..(i - 1) : ResponseKey(nodes[j]) # key

SpreadNames(selections) ==
    {selections[j].name : j \in {i \in 1..Len(selections) :
                                    /\ selections[i].kind = "FragmentSpread"
                                    /\ should_include_node(selections[i].directives)}}

\* the fragment is one whose selections a collection for type takes
Taken(fragment, type) ==
    /\ should_include_node(fragment.directives)
    /\ does_fragment_condition_match(fragment, type)

\* one more round of following spreads from the fragments of names
Follow(fragments, type, names) ==
    names \cup UNION { IF Taken(FragmentNamed(fragments, n), type)
                       THEN SpreadNames(FragmentNamed(fragments, n).selection_set)
                       ELSE {} : n \in names }

\* the fragments some un-excluded spread reaches from the selections: the
\* rounds close after as many steps as there are fragments
Reached(fragments, type, selections) ==
    LET R0 == SpreadNames(selections)
        R1 == Follow(fragments, type, R0)
        R2 == Follow(fragments, type, R1)
        R3 == Follow(fragments, type, R2)
        R4 == Follow(fragments, type, R3)
    IN  Follow(fragments, type, R4)

\* the ids of the fields a fragment's selection set holds and does not exclude
OwnFieldIds(fragment) ==
    {fragment.selection_set[j].id : j \in {i \in 1..Len(fragment.selection_set) :
        /\ fragment.selection_set[i].kind = "Field"
        /\ should_include_node(fragment.selection_set[i].directives)}}

\* how often the node id is held in fields
Occurrences(fields, id) ==
    Cardinality(UNION { { <<i, k>> : k \in {m \in 1..Len(fields[i].asts) :
                                               fields[i].asts[m].id = id} } :
                        i \in 1..Len(fields) })

\* C16: in one collection a named fragment's selections are collected at most
\* once, however often and through whatever cycle it is spread; the visited
\* names are exactly those some spread not excluded by its own directive
\* reaches, so an excluded spread marks nothing and a later spread of the same
\* fragment is collected; the call returns on fragments that spread each other.
C16_FragmentOnce ==
    CollectDone =>
        LET fragments == Fragments(document)
            fields == ret.v.fields
        IN  /\ ret.v.visited = Reached(fragments, Top.type, Top.asts)
            /\ \A n \in 1..Len(fragments) :
                   \A id \in OwnFieldIds(fragments[n]) :
                       Occurrences(fields, id) =
                           IF /\ fragments[n].name \in Reached(fragments, Top.type, Top.asts)
                              /\ Taken(fragments[n], Top.type)
                           THEN 1 ELSE 0

\* F is spread under @skip(if: true) first and plainly afterwards: the second
\* spread collects F, and G through it, once
C16_Witness ==
    /\ CollectDone
    /\ Top.type = "Obj"
    /\ Len(Top.asts) = 2
    /\ Top.asts[1] = Place(FragmentSpread("F", <<Skip(TRUE), Include(TRUE)>>, <<>>), <<1>>)
    /\ Top.asts[2] = Place(FragmentSpread("F", <<>>, <<>>), <<2>>)
    /\ ret.v.visited = {"F", "G"}
    /\ CollectedIds(ret.v.fields) = {<<101, 1>>, <<102, 1>>}
(***************************************************************************)
(* C19                                                                     *)
(***************************************************************************)
\* a call of either get_field_def has returned
FieldDefDone ==
    stack # <<>> /\ Top.fn \in {"get_field_def", "utils.get_field_def"} /\ Top.pc = "done"

\* Object, Interface and Union types
IsComposite(t) == t \in TypeMap /\ TypeDef(t).kind \in {"Object", "Interface", "Union"}

\* the field the parent type declares under the name, if it declares fields
\* and has one of this name
Declared(parent_type, name) ==
    IF /\ parent_type \in TypeMap
       /\ TypeDef(parent_type).kind \in {"Object", "Interface"}
       /\ name \in DOMAIN get_fields(parent_type)
    THEN FieldDef(name, get_fields(parent_type)[name], FALSE)
    ELSE NoFieldDef

\* C19: both field lookups give the __schema and __type meta-fields on the
\* schema's query root type and nowhere else: on any other parent, the mutation
\* root included, these names get the field the parent declares under them, if
\* any; __typename gets the type-name meta-field on every composite parent,
\* unions included.
C19_MetaFields ==
    FieldDefDone =>
        LET name == Top.asts[1].name
            parent_type == Top.type
        IN  /\ (name \in {"__schema", "__type"} /\ parent_type = schema.query)
                   => ret.v.meta /\ ret.v.name = name
            /\ (name \in {"__schema", "__type"} /\ parent_type # schema.query)
                   => ret.v = Declared(parent_type, name)
            /\ (name = "__typename" /\ IsComposite(parent_type))
                   => ret.v = TypeNameMetaFieldDef

\* __schema on a mutation root that declares a field of this name
C19_Witness ==
    /\ FieldDefDone
    /\ Top.fn = "get_field_def"
    /\ Top.asts[1].name = "__schema"
    /\ schema = [query |-> "Query", mutation |-> "Other"]
    /\ Top.type = "Other"
    /\ ret.v = FieldDef("__schema", "String", FALSE)
(***************************************************************************)
(* C17                                                                     *)
(***************************************************************************)
\* C17: execute given no operation name on a document that defines more than
\* one operation raises 'Must provide operation name if query contains
\* multiple operations' and runs none of them, also when the operations are
\* anonymous or share a name.
C17_MustProvideOperationName ==
    (Done /\ entry = "execute" /\ operation_name = "" /\ Len(Operations(document)) > 1)
        => /\ ret = RetExc(MustProvideOperationName)
           /\ calls = <<>>

(***************************************************************************)
(* C18                                                                     *)
(***************************************************************************)
\* the given operation name is the name of no operation of the document
UnknownOperationName ==
    /\ operation_name # ""
    /\ \A i \in 1..Len(Operations(document)) : Operations(document)[i].name # operation_name

\* the operation the request names (the only one when it names none) declares
\* a variable of NonNull type, and the caller gives no variable values
CoercionFails ==
    \E i \in 1..Len(Operations(document)) :
        /\ Operations(document)[i].name = operation_name
        /\ \E v \in 1..Len(Operations(document)[i].variable_definitions) :
               TypeDef(Operations(document)[i].variable_definitions[v].type).kind = "NonNull"

\* C18: when the given operation name matches no operation, or the coercion of
\* the variables fails, execute never starts the execution: no fields are
\* collected, no resolver is invoked, and the error is what execute raises.
C18_NoExecutionWithoutContext ==
    (entry = "execute" /\ (UnknownOperationName \/ CoercionFails))
        => /\ calls = <<>>
           /\ \A i \in 1..Len(stack) : stack[i].fn = "execute"
           /\ Done => ret.k = "exc" /\ ret.e.cls = "GraphQLError"

\* execute has raised on a request whose variable is missing
C18_Witness ==
    /\ Done
    /\ entry = "execute"
    /\ CoercionFails
    /\ ret = RetExc(GraphQLError("Variable was not provided", <<>>))
(***************************************************************************)
(* C15                                                                     *)
(***************************************************************************)
RECURSIVE AllSelections(_)
\* the selection sets of the field ASTs, one after the other
AllSelections(field_asts) ==
    IF field_asts = <<>> THEN <<>>
    ELSE Head(field_asts).selection_set \o AllSelections(Tail(field_asts))

RECURSIVE FirstKeys(_, _)
\* the response keys of the nodes in order of first appearance
FirstKeys(nodes, seen) ==
    IF nodes = <<>> THEN <<>>
    ELSE IF ResponseKey(Head(nodes)) \in seen THEN FirstKeys(Tail(nodes), seen)
    ELSE <<ResponseKey(Head(nodes))>>
             \o FirstKeys(Tail(nodes), seen \cup {ResponseKey(Head(nodes))})

\* the sub-field nodes of an object completed for field_asts: those of all the
\* selection sets read as one, a fragment being taken at its first spread
MergedNodes(object_type, field_asts) ==
    Appearing(TheFragments, object_type, AllSelections(field_asts), Visit(<<>>, {})).nodes

DictKeys(dict) == [j \in 1..Len(dict.entries) |-> dict.entries[j].key]

\* the calls of this run made for one of the field ASTs on the root object
RootCallsOf(field_asts) ==
    SelectSeq(calls, LAMBDA c : /\ c.source = Root.id
                                /\ \E n \in 1..Len(field_asts) : field_asts[n].id = c.id)

\* the object, or every object of the list, has exactly these keys in this order
HasKeys(value, keys) ==
    /\ value.t = "dict" => DictKeys(value) = keys
    /\ value.t = "list" =>
           \A n \in 1..Len(value.items) :
               value.items[n].t = "dict" => DictKeys(value.items[n]) = keys

\* C15: for field ASTs sharing a response key, the resolver is invoked at most
\* once, for the first of them, and exactly once when the result holds the
\* key; the fields executed on the object it returns are the sub-fields of
\* the selection sets of all the field ASTs, collected into one map with one
\* visited set, and the completed object holds exactly their keys.
C15_MergedSelections ==
    /\ Executed =>
           LET collected == RootCollected
           IN  \A j \in 1..Len(collected) :
               LET field_asts == collected[j].asts
                   made == RootCallsOf(field_asts)
               IN  Len(field_asts) >= 2 =>
                       /\ Len(made) <= 1
                       /\ \A n \in 1..Len(made) :
                              /\ made[n].id = field_asts[1].id
                              /\ made[n].name = field_asts[1].name
                       /\ (/\ Returned /\ ret.v.data.t = "dict"
                           /\ HasKey(ret.v.data, collected[j].key)) =>
                              /\ Len(made) = 1
                              /\ HasKeys(Get(ret.v.data, collected[j].key),
                                         FirstKeys(MergedNodes("Obj", field_asts), {}))
    /\ \A i \in 1..(Len(stack) - 1) :
           (stack[i].fn = "complete_value" /\ stack[i].pc = "wait_fields"
               /\ Len(stack[i].asts) >= 2)
           => LET nodes == MergedNodes(stack[i].type, stack[i].asts)
                  fields == stack[i + 1].fields
              IN  /\ stack[i + 1].fn = "execute_fields_serially"
                  /\ [j \in 1..Len(fields) |-> fields[j].key] = FirstKeys(nodes, {})
                  /\ \A j \in 1..Len(fields) : fields[j].asts = Keyed(nodes, fields[j].key)

\* `{ o { ...F } o { ...F y } }` has returned: o was resolved once, and its
\* object holds x of F, taken once, and y
C15_Witness ==
    /\ Returned
    /\ document \in MergeDocuments
    /\ Len(RootCollected) = 1
    /\ RootCollected[1].key = "o"
    /\ RootCollected[1].asts[1].selection_set[1].kind = "FragmentSpread"
    /\ Len(RootCollected[1].asts[2].selection_set) = 2
    /\ Len(calls) = 3
    /\ ret.v.data.t = "dict"
    /\ Get(ret.v.data, "o").t = "dict"
    /\ DictKeys(Get(ret.v.data, "o")) = <<"x", "y">>
(***************************************************************************)
(* C20                                                                     *)
(***************************************************************************)
\* the step is one in which complete_value_catching_error catches a failure
Catches ==
    /\ stack # <<>> /\ Top.fn = "complete_value_catching_error"
    /\ ret.k = "exc"
    /\ ret' = RetVal(None)

\* C20: every step of an execution leaves the errors recorded so far in place
\* and in order and adds at most one; a step in which a failure is caught adds
\* exactly that failure at the end; the result lists the errors in the order
\* of their recording.
C20_ErrorsAppendOnly ==
    [][ stack # <<>> =>
            /\ Len(errors') \in {Len(errors), Len(errors) + 1}
            /\ SubSeq(errors', 1, Len(errors)) = errors
            /\ Catches => errors' = errors \o <<ret.e>>
            /\ (stack' = <<>> /\ ret'.k = "val" /\ valErrors = <<>> /\ errors # <<>>)
                   => ret'.v.errors.items = [i \in 1..Len(errors) |-> format_error(errors[i])]
      ]_vars

\* two different failures have been caught and the result lists them in order
C20_Witness ==
    /\ Returned /\ valErrors = <<>>
    /\ Len(errors) = 2
    /\ errors[1] # errors[2]
    /\ ret.v.errors.items = <<format_error(errors[1]), format_error(errors[2])>>
(***************************************************************************)
(* C21                                                                     *)
(***************************************************************************)
\* the value and the error of a finished run
Data == ret.v.data
ErrorCount == IF ret.v.errors = None THEN 0 ELSE Len(ret.v.errors.items)

\* the run has returned a field map for a request that passes validation
Answered ==
    /\ Done /\ Executed /\ Returned
    /\ Validates(schema, TheOperation.selection_set, TheRootType)
    /\ Data.t = "dict"

\* what the object item completes to when all the resolvers below it return a
\* value of their types
ItemFields(field_asts, item) ==
    ExpectedFields("Obj", item, CollectSubfields(TheFragments, "Obj", field_asts), 1, <<>>)

\* the list frame at stack position i is at its idx-th item with the items
\* before it completed one by one: nil stays nil, a string itself, an object a
\* field map or nil; under a NonNull item type no completed item is nil
ListFrameOk(i) ==
    LET item_type == TypeDef(stack[i].type).of_type
        items == stack[i].source.items
        n == stack[i].idx
        retval == stack[i].acc
    IN  /\ n \in 1..Len(items)
        /\ Len(retval) = n - 1
        /\ \A k \in 1..(n - 1) :
               /\ items[k] = None => retval[k] = None
               /\ IsNonNull(item_type) => retval[k] # None
               /\ items[k].t = "str" => retval[k] = serialize("String", items[k])
               /\ items[k].t = "obj" => retval[k] = None \/ retval[k].t = "dict"
        /\ i < Len(stack) =>
               /\ stack[i + 1].fn = "complete_value_catching_error"
               /\ stack[i + 1].type = item_type
               /\ stack[i + 1].source = items[n]
               /\ stack[i + 1].asts = stack[i].asts
        \* the failure of an item leaves the item only under a NonNull item type
        /\ (i = Len(stack) /\ ret.k = "exc") => IsNonNull(item_type)

\* the root field f, of a list type, whose resolver returned the non-empty
\* list `returned`, in the data of a finished run
ListFieldOk(f, returned) ==
    LET items == returned.items
        type == get_field_def(schema, TheRootType, f.asts[1].name).type
        item_type == TypeDef(type).of_type
        completed == Get(Data, f.key)
        failed(k) == items[k] # None /\ completed.items[k] = None
    IN  IF IsNonNull(item_type)
        THEN IF \E k \in 1..Len(items) : items[k] = None
             \* one item fails: the list field is nil, the error recorded once
             THEN /\ completed = None
                  /\ ret.v.errors = List(<< format_error(NullError(f.asts)) >>)
             ELSE /\ completed = List([k \in 1..Len(items) |-> serialize("String", items[k])])
                  /\ ErrorCount = 0
        ELSE /\ completed.t = "list"
             /\ Len(completed.items) = Len(items)
             /\ \A k \in 1..Len(items) :
                    /\ items[k] = None => completed.items[k] = None
                    /\ items[k] # None =>
                           \/ completed.items[k].t = "dict"
                           \/ completed.items[k] = None
                    /\ failed(k) =>
                           /\ ErrorCount >= 1
                           /\ \A m \in 1..Len(items) :
                                  (m # k /\ items[m] # None)
                                  => completed.items[m] = ItemFields(f.asts, items[m])
             \* the errors of a request for this field alone: one for each item
             \* that failed
             /\ Len(RootCollected) = 1 =>
                    ErrorCount = Cardinality({k \in 1..Len(items) : failed(k)})

\* C21: completing a non-empty list gives one entry per element of the
\* resolver's list, in the same order; under a nullable item type an element
\* whose completion fails is nil and recorded as one error while the other
\* elements keep their values; under a NonNull item type the failure of one
\* element fails the list field, which its own nullability handles (the field
\* is nil, the error recorded once).  Stated for the list frames of a run and
\* for the root fields l: [String!] and q: [Obj], for requests that pass
\* validation; the errors are counted when the list field is the only root
\* field.
C21_ListCompletion ==
    /\ (\E i \in 1..Len(stack) : stack[i].pc = "wait_item") =>
           ( Validates(schema, TheOperation.selection_set, TheRootType) =>
               \A i \in 1..Len(stack) :
                   (stack[i].fn = "complete_value" /\ stack[i].pc = "wait_item")
                   => ListFrameOk(i) )
    /\ Answered =>
           LET collected == RootCollected
           IN  \A j \in 1..Len(collected) :
                   LET f == collected[j]
                       did == Did(Root, f.asts[1].name)
                   IN  ( /\ HasKey(Data, f.key)
                         /\ did.k = "ret" /\ did.v.t = "list" /\ did.v.items # <<>> )
                       => ListFieldOk(f, did.v)

\* `{ q { y } }` has returned, the resolver of q having returned two objects:
\* the first is nil, its y having failed, with one error; the second keeps y
C21_Witness ==
    /\ Answered
    /\ Len(RootCollected) = 1 /\ RootCollected[1].asts[1].name = "q"
    /\ Did(Root, "q").k = "ret" /\ Did(Root, "q").v.t = "list"
    /\ Len(Did(Root, "q").v.items) = 2
    /\ HasKey(Data, "q")
    /\ Get(Data, "q").t = "list"
    /\ Get(Data, "q").items[1] = None
    /\ Get(Data, "q").items[2].t = "dict"
    /\ Did(Root, "q").v.items[1] # None
    /\ ErrorCount = 1

(***************************************************************************)
(* C22                                                                     *)
(***************************************************************************)
InfoDone == stack # <<>> /\ Top.fn = "ResolveInfo" /\ Top.pc = "done"

\* C22: the ResolveInfo a resolver is passed gives read access to the request
\* context: info.root_value is the root value passed to execute, info.schema,
\* info.fragments, info.operation and info.variable_values are the context's
\* schema, fragment map, chosen operation and coerced variables; none of the
\* accesses fails.
C22_ResolveInfoAccess ==
    InfoDone =>
        LET ctx == ExecutionContext(document, operation_name)
            expected == CASE Top.type = "root_value" -> Root
                          [] Top.type = "schema" -> schema
                          [] Top.type = "fragments" -> ctx.fragments
                          [] Top.type = "operation" -> ctx.operation
                          [] Top.type = "variable_values" -> Dict(<<>>)
        IN  /\ ret.k = "val"
            /\ ret.v = Attr(expected)

(***************************************************************************)
(* C23                                                                     *)
(***************************************************************************)
\* C23: in the asyncio package a resolver that is an ordinary function and
\* returns a pending awaitable is awaited as well: the field's data is the
\* awaited result, never the pending value.  Stated for the String fields of
\* the object of the root field o, which default_resolve_fn reads, in a
\* request for o alone.
C23_PendingValueAwaited ==
    ( /\ mode = "async" /\ Answered
      /\ Len(RootCollected) = 1 /\ RootCollected[1].asts[1].name = "o"
      /\ HasKey(Data, RootCollected[1].key)
      /\ Get(Data, RootCollected[1].key).t = "dict" )
    => LET object == Did(Root, "o").v
           completed == Get(Data, RootCollected[1].key)
           subfields == CollectSubfields(TheFragments, "Obj", RootCollected[1].asts)
       IN  \A j \in 1..Len(subfields) :
               LET did == Did(object, subfields[j].asts[1].name)
               IN  (did.k = "ret" /\ did.v.t = "pending")
                   => /\ HasKey(completed, subfields[j].key)
                      /\ Get(completed, subfields[j].key) = serialize("String", did.v.v)

(***************************************************************************)
(* C24, C25                                                                *)
(***************************************************************************)
CyclesDone == stack # <<>> /\ Top.fn = "NoFragmentCycles" /\ Top.pc = "done"

\* the names the fragment named name spreads, at any depth of its body
SpreadsOf(name) ==
    LET nodes == gather_spreads(FragmentNamed(TheFragments, name).selection_set)
    IN  {nodes[i].name : i \in 1..Len(nodes)}

Defined == FragmentNames(TheFragments)

\* every spread of the document names a fragment it defines
AllDefined == \A name \in Defined : SpreadsOf(name) \subseteq Defined

RECURSIVE ReachedFrom(_, _)
\* the fragments reached from those of S by one spread or more
ReachedFrom(S, n) ==
    IF n = 0 THEN {}
    ELSE LET next == UNION {SpreadsOf(name) \cap Defined : name \in S}
         IN  next \cup ReachedFrom(next, n - 1)

\* some fragment spreads itself, directly or through other fragments
HasCycle == \E name \in Defined : name \in ReachedFrom({name}, Cardinality(Defined))

\* C24: on a document all of whose spreads name defined fragments, running
\* NoFragmentCycles over the fragment definitions terminates; it reports at
\* least one "Cannot spread fragment ... within itself" error when the
\* spreads form a cycle, each error for a fragment that reaches itself, and
\* no error when they form none.
C24_CyclesReported ==
    (CyclesDone /\ AllDefined) =>
        /\ ret.k = "val"
        /\ HasCycle <=> ret.v.items # <<>>
        /\ \A i \in 1..Len(ret.v.items) :
               LET e == ret.v.items[i]
               IN  /\ e.cls = "GraphQLError"
                   /\ e.msg = "Cannot spread fragment within itself"
                   /\ e.arg.fragment \in ReachedFrom({e.arg.fragment}, Cardinality(Defined))

\* the rule has reported the cycle A -> B -> C -> A, once, for A
C24_Witness ==
    /\ CyclesDone /\ AllDefined
    /\ SpreadsOf("A") = {"B"} /\ SpreadsOf("B") = {"C"} /\ SpreadsOf("C") = {"A"}
    /\ ret.k = "val"
    /\ Len(ret.v.items) = 1
    /\ ret.v.items[1].arg.fragment = "A"
    /\ ret.v.items[1].arg.via = <<"B", "C">>

\* C25: validation never throws: the hooks of NoFragmentCycles return nothing
\* or a list of errors for every document, one whose fragment spreads a name
\* without definition included.
C25_ValidationNeverThrows ==
    CyclesDone => ret.k = "val"

(***************************************************************************)
(* C27 .. C30                                                              *)
(***************************************************************************)
\* the callers of get_type_map that have their result
Finished == {c \in 1..Len(callers) : callers[c].pc = "done"}

Keys(map) == {map.entries[i].key : i \in 1..Len(map.entries)}

\* get_named_type(type): the name under the wrappers
NameOf(type) == type[Len(type)]

FieldTypeNames(def) == {NameOf(def.fields[i].type) : i \in 1..Len(def.fields)}

\* the named types one step from a type: the return and argument types of the
\* fields of an object or interface, the interfaces of an object, the
\* possible types of an interface or union
Referenced(def) ==
    (IF def.kind \in {"Object", "Interface"}
     THEN FieldTypeNames(def)
          \cup UNION { {NameOf(def.fields[i].args[j].type) :
                           j \in 1..Len(def.fields[i].args)} : i \in 1..Len(def.fields) }
     ELSE {})
    \cup (IF def.kind = "Object"
          THEN {def.interfaces[i] : i \in 1..Len(def.interfaces)} ELSE {})
    \cup (IF def.kind \in {"Interface", "Union"}
          THEN {def.possible_types[i] : i \in 1..Len(def.possible_types)} ELSE {})

RECURSIVE Reachable(_, _)
\* the names reached from those of S in any number of steps
Reachable(types, S) ==
    LET next == S \cup UNION {Referenced(types[n]) : n \in S}
    IN  IF next = S THEN S ELSE Reachable(types, next)

\* the query root, the mutation root when there is one, the introspection schema
RootNames ==
    {schema.query, "__Schema"}
    \cup (IF schema.mutation = NoType THEN {} ELSE {NameOf(schema.mutation)})

\* C27: the type map get_type_map returns holds every named type reachable
\* from the query root, the mutation root (when present) and the
\* introspection schema through field return types, field argument types,
\* interfaces of objects and possible types of interfaces and unions, the
\* List and NonNull wrappers removed, each under its own name.
C27_ReachableTypesMapped ==
    \A c \in Finished :
        LET map == callers[c].result
        IN  /\ map.t = "map"
            /\ Reachable(schema.types, RootNames) \subseteq Keys(map)
            /\ \A i \in 1..Len(map.entries) :
                   schema.types[map.entries[i].type].name = map.entries[i].key

\* the map of a schema with a mutation root whose A.g(arg: In!) returns [B]
\* and whose B.h returns I, implemented by A: it holds M, B, I, In
C27_Witness ==
    /\ Finished # {}
    /\ schema.mutation # NoType
    /\ schema.types["A"].fields[1].args # <<>>
    /\ NameOf(schema.types["A"].fields[1].args[1].type) = "In"
    /\ schema.types["A"].fields[1].type = ListOf(Named("B"))
    /\ schema.types["B"].fields[1].type = Named("I")
    /\ \A c \in Finished : {"Q", "M", "A", "B", "I", "In", "String", "__Type"}
                                \subseteq Keys(callers[c].result)

\* C28: the type map is closed under input objects too: a named type that is
\* referenced only as the type of a field of an input object type used as an
\* argument type is in the map.
C28_InputObjectFieldsMapped ==
    \A c \in Finished :
        LET map == callers[c].result
        IN  map.t = "map" =>
                \A n \in Keys(map) :
                    schema.types[n].kind = "InputObject"
                    => FieldTypeNames(schema.types[n]) \subseteq Keys(map)

\* the types of the schema reference each other in a cycle: A returns itself,
\* or A implements I (whose possible type it is), or A returns B and B returns A
Cyclic ==
    \/ NameOf(schema.types["A"].fields[1].type) = "A"
    \/ schema.types["A"].interfaces # <<>>
    \/ /\ NameOf(schema.types["A"].fields[1].type) = "B"
       /\ NameOf(schema.types["B"].fields[1].type) = "A"

\* C29: building the type map of a schema whose types reference each other in
\* a cycle ends, and descends into each named type at most once: every name is
\* entered in the map once (an entry is made exactly when the reducer goes on
\* into the type).
C29_EachTypeOnce ==
    \A c \in 1..Len(callers) :
        (Cyclic /\ callers[c].pc \in {"store", "return", "done"} /\ callers[c].built # None)
        => LET entries == callers[c].built.entries
           IN  \A i, j \in 1..Len(entries) : entries[i].key = entries[j].key => i = j

\* a map was built for a schema with all three cycles, A reached through each
C29_Witness ==
    /\ \E c \in Finished : callers[c].built # None /\ "B" \in Keys(callers[c].built)
    /\ schema.types["A"].interfaces # <<>>
    /\ NameOf(schema.types["A"].fields[1].type) = "B"
    /\ NameOf(schema.types["B"].fields[1].type) = "A"
    /\ NameOf(schema.types["Q"].fields[1].type) = "I"

\* C30: with several callers of get_type_map interleaved on a schema whose map
\* is not built yet, no caller sees a partly built map: what is stored and
\* what is returned is always the complete map, the same for all; and once a
\* map is stored, a call that starts returns it without building.
C30_NoPartialMap ==
    [][ LET complete == build_type_map(schema)
        IN  /\ type_map' # type_map => type_map' = complete
            /\ \A c \in 1..Len(callers) :
                   /\ callers'[c].result # callers[c].result
                      => callers'[c].pc = "done" /\ callers'[c].result = complete
                   /\ (callers[c].pc = "start" /\ type_map # None)
                      => callers'[c].pc \in {"start", "return"}
                   /\ (callers[c].pc = "start" /\ callers'[c].pc = "return")
                      => callers'[c].built = None ]_vars

\* two callers have the same complete map, both having built one; a third, if
\* any, came later
C30_Witness ==
    /\ Len(callers) >= 2
    /\ \A c \in 1..Len(callers) : callers[c].pc = "done"
    /\ callers[1].built # None /\ callers[2].built # None
    /\ callers[1].result = callers[2].result
    /\ callers[1].result = build_type_map(schema)

(***************************************************************************)
(* C26                                                                     *)
(***************************************************************************)
\* C26: TypeInfo.leave(node) undoes TypeInfo.enter(node) for every kind of
\* node: when the traversal leaves a node, its subtree traversed, the type,
\* parent-type, input-type and field-definition stacks are what they were
\* before the node was entered; for the document that is four empty stacks.
C26_LeaveUndoesEnter ==
    [][ (entry = "TypeInfo" /\ Len(stack') < Len(stack))
        => Stacks(info') = Top.before ]_vars

(***************************************************************************)
(* C31                                                                     *)
(***************************************************************************)
LanguageDone == stack # <<>> /\ Top.fn = "LanguageError" /\ Top.pc = "done"

\* the rows of a text: its pieces between line feeds
RECURSIVE Rows(_)
Rows(text) ==
    IF \E i \in 1..Len(text) : text[i] = LF
    THEN LET i == CHOOSE j \in 1..Len(text) :
                      text[j] = LF /\ \A k \in 1..(j - 1) : text[k] # LF
         IN  <<SubSeq(text, 1, i - 1)>> \o Rows(SubSeq(text, i + 1, Len(text)))
    ELSE <<text>>

\* the row that shows line number of the body, the body having fewer than
\* nine lines
Shown(body, number) ==
    <<Digits[number + 1], ":", " ">>
    \o (IF number <= Len(Rows(body)) THEN Rows(body)[number] ELSE <<>>)

\* C31: for every position from 0 to len(body), str(error) succeeds and is
\* 'Syntax Error <name> (<line>:<col>) <description>', a blank line, the
\* previous line when line >= 2, the offending line, a caret under the
\* 1-based column, and the next line when the body has one.
C31_ErrorFormatted ==
    LanguageDone =>
        LET body == document
            position == Top.idx
            line == Cardinality({i \in 1..position : body[i] = LF}) + 1
            column == position + 1
                      - Cardinality({i \in 1..position :
                                        \E j \in i..position : body[j] = LF})
            \* a line feed at the end of the body opens no further line
            count == IF Rows(body)[Len(Rows(body))] = <<>> THEN Len(Rows(body)) - 1
                     ELSE Len(Rows(body))
        IN  /\ ret.k = "val"
            /\ LET rows == Rows(ret.v.s)
                    at == IF line >= 2 THEN 4 ELSE 3
               IN  /\ rows[1] = SyntaxError \o SourceName \o <<" ", "(", Digits[line + 1], ":",
                                                               Digits[column + 1], ")", " ">>
                                \o Description
                   /\ rows[2] = <<>>
                   /\ line >= 2 => rows[3] = Shown(body, line - 1)
                   /\ rows[at] = Shown(body, line)
                   /\ rows[at + 1] = Spaces(2 + column) \o <<"^">>
                   /\ line < count => rows[at + 2] = Shown(body, line + 1)

(***************************************************************************)
(* C32                                                                     *)
(***************************************************************************)
\* the spread nodes of the fragment named name, at any depth of its body
SpreadNodesOf(name) == gather_spreads(FragmentNamed(TheFragments, name).selection_set)

\* the fragments that spread something
Spreading == {name \in Defined : SpreadNodesOf(name) # <<>>}

\* the fragment the fragment named name spreads, when it has one spread
NextOf(name) == SpreadNodesOf(name)[1].name

RECURSIVE CycleFrom(_, _)
\* the spreads met from the fragment named name on, n fragments long
CycleFrom(name, n) ==
    IF n = 0 THEN <<>>
    ELSE <<SpreadNodesOf(name)[1]>> \o CycleFrom(NextOf(name), n - 1)

\* the first fragment definition of the document that spreads something
FirstSpreading ==
    TheFragments[CHOOSE i \in 1..Len(TheFragments) :
                    /\ TheFragments[i].name \in Spreading
                    /\ \A j \in 1..(i - 1) : TheFragments[j].name \notin Spreading].name

\* the fragments that spread anything form one simple cycle: each spreads
\* exactly once, the next one, and the spreads lead from the first through
\* all of them and back
SimpleCycle ==
    /\ Spreading # {}
    /\ \A name \in Spreading :
           Len(SpreadNodesOf(name)) = 1 /\ NextOf(name) \in Spreading
    /\ LET cycle == CycleFrom(FirstSpreading, Cardinality(Spreading))
       IN  /\ {cycle[i].name : i \in 1..Len(cycle)} = Spreading
           /\ cycle[Len(cycle)].name = FirstSpreading

\* C32: on a document whose fragments form one simple spread cycle of n
\* fragments, NoFragmentCycles reports exactly one error over the whole
\* document: for the first fragment of the cycle in document order, with the
\* n spreads of the cycle in order as its nodes, and naming after 'via' the
\* fragments between (none when n = 1).
C32_OneErrorPerCycle ==
    (CyclesDone /\ SimpleCycle) =>
        LET n == Cardinality(Spreading)
            cycle == CycleFrom(FirstSpreading, n)
        IN  /\ ret.k = "val"
            /\ Len(ret.v.items) = 1
            /\ ret.v.items[1].arg.fragment = FirstSpreading
            /\ ret.v.items[1].nodes = [i \in 1..n |-> cycle[i].id]
            /\ ret.v.items[1].arg.via = [i \in 1..(n - 1) |-> cycle[i].name]

\* the rule has run on the cycle B -> C -> B, A spreading nothing
C32_Witness ==
    /\ CyclesDone /\ SimpleCycle
    /\ Spreading = {"B", "C"}
    /\ Len(ret.v.items) = 1
    /\ ret.v.items[1].arg.via = <<"C">>

(***************************************************************************)
(* C33                                                                     *)
(***************************************************************************)
\* the rule has been run over the whole document
RuleDone(rule) == entry = rule /\ stack = <<>> /\ ret # NoRet

RECURSIVE SpreadNamesIn(_)
\* the names of the fragment spreads in a subtree
SpreadNamesIn(node) ==
    (IF node.kind = "FragmentSpread" THEN {node.name} ELSE {})
    \cup UNION {SpreadNamesIn(node.children[i]) : i \in 1..Len(node.children)}

\* the indices of the definitions of a kind in the document
DefinitionsOf(kind) ==
    {i \in 1..Len(document.children) : document.children[i].kind = kind}

RECURSIVE ReachedBy(_, _)
\* the names reached from the names of S through at most n fragments
ReachedBy(S, n) ==
    IF n = 0 THEN S
    ELSE ReachedBy(S \cup UNION {SpreadNamesIn(document.children[i]) :
                                    i \in {j \in DefinitionsOf("FragmentDefinition") :
                                               document.children[j].name \in S}},
                   n - 1)

\* the fragment names some operation reaches through a chain of spreads
UsedByOperations ==
    ReachedBy(UNION {SpreadNamesIn(document.children[i]) :
                        i \in DefinitionsOf("OperationDefinition")},
              Len(document.children))

\* the indices of the fragment definitions no operation reaches
UnusedFragments ==
    {i \in DefinitionsOf("FragmentDefinition") :
        document.children[i].name \notin UsedByOperations}

\* C33: the visit of a document by NoUnusedFragments ends, and its errors are
\* exactly the fragment definitions that no operation reaches through a chain
\* of fragment spreads, one error each in definition order: the fragments of a
\* cycle no operation reaches and a fragment spread only from an unused
\* fragment are among them.
C33_UnusedFragmentsReported ==
    RuleDone("NoUnusedFragments") =>
        /\ Len(errors) = Cardinality(UnusedFragments)
        /\ \A k \in 1..Len(errors) :
               /\ errors[k].msg = "Fragment is never used."
               /\ Len(errors[k].nodes) = 1 /\ Len(errors[k].nodes[1]) = 1
               /\ errors[k].nodes[1][1] \in UnusedFragments
               /\ errors[k].arg = Str(document.children[errors[k].nodes[1][1]].name)
               /\ \A j \in 1..(k - 1) : errors[j].nodes[1][1] < errors[k].nodes[1][1]

\* an operation uses A, and B and C, which spread each other, are reported
C33_Witness ==
    /\ RuleDone("NoUnusedFragments")
    /\ UsedByOperations = {"A"}
    /\ \E i, j \in UnusedFragments :
           /\ document.children[i].name = "B" /\ document.children[j].name = "C"
           /\ "C" \in SpreadNamesIn(document.children[i])
           /\ "B" \in SpreadNamesIn(document.children[j])
    /\ Len(errors) = 2

(***************************************************************************)
(* C34                                                                     *)
(***************************************************************************)
RECURSIVE VariablesUsed(_)
\* the names of the Variable nodes of a subtree, those of its variable
\* definitions aside
VariablesUsed(node) ==
    IF node.kind = "VariableDefinition" THEN {}
    ELSE (IF node.kind = "Variable" THEN {node.name} ELSE {})
         \cup UNION {VariablesUsed(node.children[i]) : i \in 1..Len(node.children)}

\* the names used by the Variable nodes visited between the enter and the
\* leave of the i-th definition: those of the operation and, when the
\* fragments spread are visited in place, those of the fragments it reaches
UsedIn(i) ==
    VariablesUsed(document.children[i])
    \cup (IF mode = "visit_spread_fragments"
          THEN UNION {VariablesUsed(document.children[j]) :
                         j \in {k \in DefinitionsOf("FragmentDefinition") :
                                    document.children[k].name
                                        \in ReachedBy(SpreadNamesIn(document.children[i]),
                                                      Len(document.children))}}
          ELSE {})

\* the paths of the variable definitions of the i-th definition whose
\* variable is not used
UnusedVariables(i) ==
    {<<i, k>> : k \in {c \in 1..Len(document.children[i].children) :
                          /\ document.children[i].children[c].kind = "VariableDefinition"
                          /\ document.children[i].children[c].children[1].name
                                 \notin UsedIn(i)}}

\* C34: NoUnusedVariables reports, for each operation, exactly the variables
\* the operation defines whose name no Variable node visited between its
\* enter and its leave uses: the Variable node of a variable definition is
\* no use, and the uses and definitions of an earlier operation do not count
\* for a later one.
C34_UnusedVariablesReported ==
    RuleDone("NoUnusedVariables") =>
        /\ {errors[k].nodes : k \in 1..Len(errors)}
               = {<<path>> : path \in UNION {UnusedVariables(i) :
                                                i \in DefinitionsOf("OperationDefinition")}}
        /\ \A k \in 1..Len(errors) :
               /\ errors[k].msg = "Variable is never used."
               /\ errors[k].arg =
                      Str(document.children[errors[k].nodes[1][1]]
                              .children[errors[k].nodes[1][2]].children[1].name)
               /\ \A j \in 1..(k - 1) : errors[j].nodes # errors[k].nodes

\* two operations define $a and $b; the first uses $a, the second neither:
\* $b is reported for the first, both for the second
C34_Witness ==
    /\ RuleDone("NoUnusedVariables")
    /\ mode = "visit"
    /\ DefinitionsOf("OperationDefinition") = {1, 3}
    /\ VariablesUsed(document.children[1]) = {"a"}
    /\ VariablesUsed(document.children[3]) = {}
    /\ [k \in 1..Len(errors) |-> errors[k].nodes[1]] = << <<1, 2>>, <<3, 1>>, <<3, 2>> >>

(***************************************************************************)
(* C35                                                                     *)
(***************************************************************************)
RECURSIVE NodeAt(_, _)
\* the node at a path below a node
NodeAt(node, path) ==
    IF path = <<>> THEN node ELSE NodeAt(node.children[Head(path)], Tail(path))

RECURSIVE PathsOf(_, _, _)
\* the paths of the nodes of a kind in the subtree of the node at path
PathsOf(kind, node, path) ==
    (IF node.kind = kind THEN {path} ELSE {})
    \cup UNION {PathsOf(kind, node.children[i], Append(path, i)) :
                   i \in 1..Len(node.children)}

\* the path without its last index: the parent's path
Parent(path) == SubSeq(path, 1, Len(path) - 1)

\* the arguments before the argument at path on the same field or directive
\* that have its name
EarlierSame(path) ==
    {Append(Parent(path), i) : i \in
        {j \in 1..(path[Len(path)] - 1) :
            /\ NodeAt(document, Append(Parent(path), j)).kind = "Argument"
            /\ NodeAt(document, Append(Parent(path), j)).name = NodeAt(document, path).name}}

\* the first path of a set of paths with one parent
FirstOf(paths) ==
    CHOOSE path \in paths : \A other \in paths : path[Len(path)] <= other[Len(other)]

\* C35: UniqueArgumentNames reports an argument if and only if an earlier
\* argument of the same field or of the same directive has its name, in one
\* error that cites the first argument of that name and the argument;
\* arguments of different fields, of a field and its directive, of two
\* directives of one field and of a field and its sub-field do not conflict.
C35_DuplicateArgumentsReported ==
    RuleDone("UniqueArgumentNames") =>
        /\ {errors[k].nodes : k \in 1..Len(errors)}
               = { <<Append(FirstOf(EarlierSame(path)), 1), Append(path, 1)>> :
                     path \in {a \in PathsOf("Argument", document, <<>>) :
                                  EarlierSame(a) # {}} }
        /\ \A k \in 1..Len(errors) :
               /\ errors[k].msg = "There can only be one argument named."
               /\ errors[k].arg = Str(NodeAt(document, errors[k].nodes[2]).name)
               /\ \A j \in 1..(k - 1) : errors[j].nodes # errors[k].nodes

\* f(a, b, a) @d(a) { g(a) }: one error, for the third argument of f
C35_Witness ==
    /\ RuleDone("UniqueArgumentNames")
    /\ LET f == NodeAt(document, <<1, 1, 1>>)
       IN  /\ f.kind = "Field" /\ Len(f.children) = 6
           /\ f.children[2].name = "a" /\ f.children[3].name = "b"
           /\ f.children[4].name = "a"
           /\ f.children[5].kind = "Directive" /\ Len(f.children[5].children) = 2
           /\ f.children[5].children[2].name = "a"
           /\ Len(f.children[6].children[1].children) = 2
           /\ f.children[6].children[1].children[2].name = "a"
    /\ Len(errors) = 1
    /\ errors[1].nodes = << <<1, 1, 1, 2, 1>>, <<1, 1, 1, 4, 1>> >>

(***************************************************************************)
(* C36                                                                     *)
(***************************************************************************)
\* the named operations before the i-th definition that have its name
EarlierNamed(i) ==
    {j \in 1..(i - 1) : /\ document.children[j].kind = "OperationDefinition"
                         /\ document.children[j].children[1].kind = "Name"
                         /\ document.children[j].name = document.children[i].name}

\* the named operations that have the name of an earlier operation
Duplicates ==
    {i \in DefinitionsOf("OperationDefinition") :
        document.children[i].children[1].kind = "Name" /\ EarlierNamed(i) # {}}

\* C36: UniqueOperationNames reports exactly one error for each named
\* operation that has the name of an earlier operation, citing the Name nodes
\* of the first operation of that name and of the duplicate; anonymous
\* operations and fragments of the same name bring no error.
C36_DuplicateOperationsReported ==
    RuleDone("UniqueOperationNames") =>
        /\ Len(errors) = Cardinality(Duplicates)
        /\ {errors[k].nodes : k \in 1..Len(errors)}
               = { << <<CHOOSE j \in EarlierNamed(i) : \A e \in EarlierNamed(i) : j <= e, 1>>,
                      <<i, 1>> >> : i \in Duplicates }
        /\ \A k \in 1..Len(errors) :
               /\ errors[k].msg = "There can only be one operation named."
               /\ errors[k].arg = Str(document.children[errors[k].nodes[2][1]].name)

\* three operations named P: two errors, both citing the first
C36_Witness ==
    /\ RuleDone("UniqueOperationNames")
    /\ Duplicates = {2, 3}
    /\ EarlierNamed(3) = {1, 2}
    /\ Len(errors) = 2
    /\ errors[1].nodes[1] = <<1, 1>> /\ errors[2].nodes[1] = <<1, 1>>

(***************************************************************************)
(* C37                                                                     *)
(***************************************************************************)
\* the anonymous operations of the document
Anonymous ==
    {i \in DefinitionsOf("OperationDefinition") :
        document.children[i].children[1].kind # "Name"}

\* graphql() has decided on the document
Validated == stack = <<>> /\ ret.k = "val" /\ ret.v # None

\* C37: LoneAnonymousOperation reports an anonymous operation if and only if
\* the document has more than one operation definition, fragment definitions
\* not counted, one error for each anonymous operation; and graphql() does
\* not execute a document in which an anonymous operation stands with
\* another operation.
C37_AnonymousOperationAlone ==
    /\ RuleDone("LoneAnonymousOperation") =>
           /\ [k \in 1..Len(errors) |-> errors[k].nodes] \in Seq({<<<<i>>>> : i \in Anonymous})
           /\ {errors[k].nodes[1][1] : k \in 1..Len(errors)}
                  = IF Cardinality(DefinitionsOf("OperationDefinition")) > 1
                    THEN Anonymous ELSE {}
           /\ Len(errors) = Cardinality({errors[k].nodes : k \in 1..Len(errors)})
    /\ ( /\ entry = "LoneAnonymousOperation" /\ Validated
         /\ Anonymous # {}
         /\ Cardinality(DefinitionsOf("OperationDefinition")) > 1 )
       => (ret.v # Str("execute") /\ ret.v.data = None)

\* two anonymous operations: two errors, and graphql() has returned them
C37_Witness ==
    /\ entry = "LoneAnonymousOperation" /\ Validated
    /\ Anonymous = {1, 2}
    /\ Len(errors) = 2
    /\ ret.v.errors = List(errors)

(***************************************************************************)
(* C38                                                                     *)
(***************************************************************************)
\* the selection sets of the operation run, nested ones included
OperationSelectionSets ==
    LET root == TheOperation.selection_set
        below(sels) == UNION {{sel[j].selection_set : j \in 1..Len(sel)} : sel \in sels}
    IN  {root} \cup below({root}) \cup below(below({root}))

\* the names of the fields that follow the node id in its selection set and
\* have not come before it
FollowingNames(id) ==
    UNION { {sel[k].name : k \in (j + 1)..Len(sel)} \ {sel[k].name : k \in 1..j} :
              <<sel, j>> \in {<<sel, j>> \in OperationSelectionSets \X (1..(MaxSel + 1)) :
                                j <= Len(sel) /\ sel[j].id = id} }

\* the resolver calls of this run for a field of NonNull type that failed: the
\* resolver raised or returned nil
FailedNonNullCalls ==
    {i \in 1..Len(calls) :
        LET k == <<calls[i].source, calls[i].name>>
        IN  /\ k \in DOMAIN resolvers
            /\ KeyType(k) # "none"
            /\ TypeDef(KeyType(k)).kind = "NonNull"
            /\ resolvers[k] \in {Out("raise", None), Out("ret", None)}}

\* the root fields collected after the one the call i was made under
RootFieldsAfter(i) ==
    LET at == CHOOSE j \in 1..Len(RootCollected) :
                  \E a \in 1..Len(RootCollected[j].asts) :
                      RootCollected[j].asts[a].id = <<calls[i].id[1]>>
    IN  {RootCollected[j] : j \in (at + 1)..Len(RootCollected)}

\* C38: when a field of NonNull type fails inside a selection set, the
\* resolvers of the fields that follow it in that selection set are never
\* invoked on its source; and once the run is over, the root fields that
\* follow the nullable root field under which a nested field failed have been
\* resolved and have their keys in data.
C38_NonNullFailureEndsSelectionSet ==
    (Executed /\ TheFragments = <<>>) =>
        \A i \in FailedNonNullCalls :
            /\ \A j \in 1..Len(calls) :
                   calls[j].source = calls[i].source
                   => calls[j].name \notin FollowingNames(calls[i].id)
            /\ ( /\ Done /\ calls[i].source # Root.id
                 /\ Validates(schema, TheOperation.selection_set, TheRootType) )
               => /\ Returned
                  /\ ret.v.data.t = "dict"
                  /\ \A f \in RootFieldsAfter(i) :
                         /\ Invoked(f.asts[1].name)
                         /\ HasKey(ret.v.data, f.key)

\* y failed on the object of o, x follows it there, and a root field after o
\* was resolved
C38_Witness ==
    /\ Done /\ Executed /\ TheFragments = <<>>
    /\ \E i \in FailedNonNullCalls :
           /\ calls[i].source # Root.id
           /\ FollowingNames(calls[i].id) # {}
           /\ RootFieldsAfter(i) # {}
           /\ \E j \in (i + 1)..Len(calls) : calls[j].source = Root.id

(***************************************************************************)
(* C39                                                                     *)
(***************************************************************************)
\* the selections that spread a fragment the document does not define
UndefinedSpreads(selections) ==
    {j \in 1..Len(selections) :
        /\ selections[j].kind = "FragmentSpread"
        /\ selections[j].name \notin FragmentNames(TheFragments)}

\* the selections without those spreads
DefinedOnly(selections) ==
    SelectSeq(selections, LAMBDA node :
        ~ (node.kind = "FragmentSpread" /\ node.name \notin FragmentNames(TheFragments)))

\* C39: collect_fields skips a fragment spread whose name has no fragment
\* definition in the document: it raises nothing and returns the fields of
\* the other selections of the selection set.
C39_UndefinedSpreadSkipped ==
    ( /\ stack # <<>> /\ Top.fn = "collect_fields" /\ Top.pc = "done"
      /\ UndefinedSpreads(Top.asts) # {}
      /\ DefinedOnly(Top.asts) # <<>> )
    => /\ ret.k = "val"
       /\ ret.v.fields =
              collect_fields(TheFragments, Top.type, DefinedOnly(Top.asts), <<>>, {}).fields

====
